---- MODULE Spec2Model ----
(***************************************************************************)
(* TOS Guardian: the rule engine, the image heuristics scanner and the     *)
(* /api/check verdict orchestrator of src/server.js (the variant that      *)
(* starts at line 1061).                                                   *)
(*                                                                         *)
(* A JavaScript string is a sequence of one-character strings, so that the *)
(* engine's tokenizing, fuzzy matching, rewriting and URL scanning are     *)
(* computed character by character as the code computes them.  The        *)
(* definitions without a place in server.js (Range, MatchAt, Runs, ...)    *)
(* are the JavaScript string and array primitives the code calls.          *)
(***************************************************************************)
EXTENDS Integers, Sequences, FiniteSets, TLC

(* ------------------------------ characters ------------------------------ *)
LowerAZ == <<"a","b","c","d","e","f","g","h","i","j","k","l","m","n","o","p","q","r","s","t","u","v","w","x","y","z">> (* abcdefghijklmnopqrstuvwxyz *)
UpperAZ == <<"A","B","C","D","E","F","G","H","I","J","K","L","M","N","O","P","Q","R","S","T","U","V","W","X","Y","Z">> (* ABCDEFGHIJKLMNOPQRSTUVWXYZ *)
Digits == {"0","1","2","3","4","5","6","7","8","9"}

Range(s) == { s[i] : i \in 1..Len(s) }

IsUpper(c) == c \in Range(UpperAZ)
IsLower(c) == c \in Range(LowerAZ)
\* [a-z0-9] under the i flag
IsAlnum(c) == IsUpper(c) \/ IsLower(c) \/ c \in Digits
\* \w
IsWordCh(c) == IsAlnum(c) \/ c = "_"
\* \s
IsSpace(c) == c \in {" ", "\t", "\n"}

LowerCh(c) == IF IsUpper(c) THEN LowerAZ[CHOOSE i \in 1..26 : UpperAZ[i] = c] ELSE c
UpperCh(c) == IF IsLower(c) THEN UpperAZ[CHOOSE i \in 1..26 : LowerAZ[i] = c] ELSE c
toLowerCase(s) == [i \in 1..Len(s) |-> LowerCh(s[i])] \o <<>>

Min2(a, b) == IF a <= b THEN a ELSE b

\* s.slice(0, n)
SliceTo(s, n) == SubSeq(s, 1, Min2(n, Len(s)))

\* s.substring(i - 1, j) for 1-based i
Mid(s, i, j) == SubSeq(s, Min2(i, Len(s) + 1), Min2(j, Len(s)))

\* sub occurs in s at (1-based) position i
MatchAt(s, sub, i) == /\ i >= 1
                      /\ i + Len(sub) - 1 <= Len(s)
                      /\ \A k \in 1..Len(sub) : s[i + k - 1] = sub[k]
StartsWith(s, pre) == MatchAt(s, pre, 1)
\* s.indexOf(sub) !== -1
Includes(s, sub) == \E i \in 1..(Len(s) - Len(sub) + 1) : MatchAt(s, sub, i)

RECURSIVE ConcatFrom(_, _, _)
\* acc followed by parts[i], parts[i + 1], ...
ConcatFrom(parts, i, acc) ==
    IF i > Len(parts) THEN acc
    ELSE LET Go(nxt) == IF Len(nxt) < 0 THEN <<>> ELSE ConcatFrom(parts, i + 1, nxt)
         IN  Go(acc \o parts[i])

Concat(parts) == ConcatFrom(parts, 1, <<>>)

\* parts.join(sep)
Join(parts, sep) ==
    Concat([ i \in 1..Len(parts) |-> IF i = 1 THEN parts[i] ELSE sep \o parts[i] ])

\* [#\s,]
IsHashSep(c) == c = "#" \/ c = "," \/ IsSpace(c)

\* the character classes the code's regular expressions split on
InClass(cls, c) ==
    CASE cls = "alnum" -> IsAlnum(c)
      [] cls = "word" -> IsWordCh(c)
      [] cls = "nonspace" -> ~IsSpace(c)
      [] cls = "nonhashsep" -> ~IsHashSep(c)

\* s cut into its maximal runs of characters on which the class agrees,
\* as the sequence of [w |-> is a run of the class, s |-> the run]
Runs(s, cls) ==
    LET Cut(starts, n) ==
            LET StartOf(k) == CHOOSE i \in starts : Cardinality({ j \in starts : j <= i }) = k
                EndOf(k) == IF k = n THEN Len(s) ELSE StartOf(k + 1) - 1
            IN  [ k \in 1..n |->
                    [w |-> InClass(cls, s[StartOf(k)]), s |-> SubSeq(s, StartOf(k), EndOf(k))] ]
                \o <<>>
        At(starts) == Cut(starts, Cardinality(starts))
    IN  At({ i \in 1..Len(s) : i = 1 \/ InClass(cls, s[i]) # InClass(cls, s[i - 1]) })

RunStrings(rs) == [i \in 1..Len(rs) |-> rs[i].s] \o <<>>
IsClassRun(r) == r.w

\* String(text).split(/[^a-z0-9]+/i).filter(Boolean)
tokenize(text) == RunStrings(SelectSeq(Runs(text, "alnum"), IsClassRun))

\* t.trim().split(/\s+/).filter(Boolean)
SplitWS(t) == RunStrings(SelectSeq(Runs(t, "nonspace"), IsClassRun))

\* s.split(/(\W+)/): the word runs and the separators between them
SplitW(s) == Runs(s, "word")

\* String(s || '').replace(/\s+/g, ' ').trim()
SpaceRunToBlank(r) == IF r.w THEN r.s ELSE <<" ">>
TrimBlank(s) ==
    LET a == IF s # <<>> /\ s[1] = " " THEN Tail(s) ELSE s
    IN  IF a # <<>> /\ a[Len(a)] = " " THEN SubSeq(a, 1, Len(a) - 1) ELSE a
normWS(s) ==
    LET Blanked(rs) == Concat([i \in 1..Len(rs) |-> SpaceRunToBlank(rs[i])])
    IN  TrimBlank(Blanked(Runs(s, "nonspace")))

(* --------------------- Damerau-Levenshtein distance --------------------- *)
RECURSIVE EdFill(_, _, _, _, _, _, _)
\* row i of dp, filled left to right: cur[j + 1] is dp[i][j]
EdFill(a, b, i, j, prev2, prev1, cur) ==
    IF j > Len(b) THEN cur
    ELSE LET cost == IF a[i] = b[j] THEN 0 ELSE 1
             Cell(base) == IF i > 1 /\ j > 1 /\ a[i] = b[j - 1] /\ a[i - 1] = b[j]
                           THEN Min2(base, prev2[j - 1] + 1)
                           ELSE base
             Go(nxt) == IF Len(nxt) < 0 THEN <<>> ELSE EdFill(a, b, i, j + 1, prev2, prev1, nxt)
         IN  Go(Append(cur, Cell(Min2(Min2(prev1[j + 1] + 1, cur[j] + 1), prev1[j] + cost))))

RECURSIVE EdRows(_, _, _, _, _)
\* prev1 is row i - 1 of dp and prev2 row i - 2; the result is dp[m][n]
EdRows(a, b, i, prev2, prev1) ==
    IF i > Len(a) THEN prev1[Len(b) + 1]
    ELSE LET Go(row) == IF Len(row) < 0 THEN 0 ELSE EdRows(a, b, i + 1, prev1, row)
         IN  Go(EdFill(a, b, i, 1, prev2, prev1, <<i>>))

editDistance_CaseSensitive(a0, b0) ==
    EdRows(a0, b0, 1, <<>>, [j \in 1..(Len(b0) + 1) |-> j - 1] \o <<>>)

editDistance(a0, b0) ==
    LET Dist(a, b) == EdRows(a, b, 1, <<>>, [j \in 1..(Len(b) + 1) |-> j - 1] \o <<>>)
    IN  Dist(toLowerCase(a0), toLowerCase(b0))

fuzzyMatchAny(token, list, maxEd) ==
    \E k \in 1..Len(list) : editDistance(token, list[k]) <= maxEd

verbNearNoun_VerbFirst(text, verbs, nouns, windowSize) ==
    LET Near(verbIdx, nounIdx) ==
            \E iv \in verbIdx : \E inx \in nounIdx : iv <= inx /\ inx - iv <= windowSize
        Of(toks) == Near({ i \in 1..Len(toks) : fuzzyMatchAny(toks[i], verbs, 1) },
                         { i \in 1..Len(toks) : fuzzyMatchAny(toks[i], nouns, 1) })
    IN  Of(tokenize(text))

verbNearNoun(text, verbs, nouns, windowSize) ==
    LET Abs(x) == IF x < 0 THEN -x ELSE x
        Near(verbIdx, nounIdx) ==
            \E iv \in verbIdx : \E inx \in nounIdx : Abs(iv - inx) <= windowSize
        Of(toks) == Near({ i \in 1..Len(toks) : fuzzyMatchAny(toks[i], verbs, 1) },
                         { i \in 1..Len(toks) : fuzzyMatchAny(toks[i], nouns, 1) })
    IN  Of(tokenize(text))

(* ------------------------- string & style helpers ------------------------ *)
CountCh(t, ch) == Cardinality({ i \in 1..Len(t) : t[i] = ch })

Modals == { <<"m","a","y">>, <<"m","i","g","h","t">> (* might *), <<"c","o","u","l","d">> (* could *), <<"c","a","n">> }

\* /\b(w1|w2|...)\b/i.test(t): some maximal \w run of t is one of the words
HasWord(t, words) ==
    LET Among(rs) == \E i \in 1..Len(rs) : rs[i].w /\ toLowerCase(rs[i].s) \in words
    IN  Among(SplitW(t))

detectStyle(text) ==
    LET isLower == text = toLowerCase(text)
        Titleish(words) ==
            /\ Len(words) > 2
            /\ Cardinality({ i \in 1..Len(words) : IsUpper(words[i][1]) })
                 >= (Len(words) * 6) \div 10
    IN  [ exclam |-> Min2(CountCh(text, "!"), 2),
          casing |-> IF isLower THEN "lower"
                     ELSE IF Titleish(SplitWS(text)) THEN "title" ELSE "sentence",
          usedModal |-> HasWord(text, Modals) ]

\* out.replace(/\w\S*/g, w => w[0].toUpperCase() + w.slice(1).toLowerCase()):
\* a match starts at the first \w of a run of non-blanks and runs to its end
TitleCase(s) ==
    LET From(w, ws) ==
            IF ws = {} THEN w
            ELSE LET f == CHOOSE i \in ws : \A j \in ws : i <= j
                 IN  SubSeq(w, 1, f - 1) \o << UpperCh(w[f]) >>
                     \o toLowerCase(SubSeq(w, f + 1, Len(w)))
        Word(r) == IF r.w THEN From(r.s, { i \in 1..Len(r.s) : IsWordCh(r.s[i]) }) ELSE r.s
        Each(rs) == Concat([ i \in 1..Len(rs) |-> Word(rs[i]) ])
    IN  Each(Runs(s, "nonspace"))

\* out.replace(/\.*$/, '') and out.replace(/[!]+$/, '')
StripTrailing(s, ch) ==
    LET keep == { k \in 0..Len(s) : k = 0 \/ s[k] # ch }
    IN  SubSeq(s, 1, CHOOSE k \in keep : \A m \in keep : m <= k)

Repeat(ch, n) == [i \in 1..n |-> ch] \o <<>>

applyStyle(text, style) ==
    LET cased == IF style.casing = "lower" THEN toLowerCase(text)
                 ELSE IF style.casing = "title" THEN TitleCase(text)
                 ELSE IF text = <<>> THEN text
                 ELSE <<UpperCh(text[1])>> \o Tail(text)
    IN  IF style.exclam > 0
        THEN StripTrailing(cased, ".") \o Repeat("!", style.exclam)
        ELSE StripTrailing(cased, "!")

(* ---------------------------- medical rewrite --------------------------- *)
NeutralVerb == <<"s","u","p","p","o","r","t","s">> (* supports *)
DefaultNeutralNoun == <<"o","v","e","r","a","l","l"," ","w","e","l","l","n","e","s","s">> (* overall wellness *)
SafeSentence == <<"D","e","s","i","g","n","e","d"," ","t","o"," ","s","u","p","p","o","r","t"," ","e","v","e","r","y","d","a","y"," ","s","e","l","f","-","c","a","r","e"," ","a","n","d"," ","o","v","e","r","a","l","l"," ","w","e","l","l","n","e","s","s">> (* Designed to support everyday self-care and overall wellness *)
MinRewriteLen == 15

\* /^[a-z0-9]+$/i.test(tok)
IsAlnumToken(tok) == tok # <<>> /\ \A i \in 1..Len(tok) : IsAlnum(tok[i])

\* tokens[i] = repl for every alphanumeric token within edit distance 1 of list
FuzzyReplace(s, list, repl) ==
    LET Each(rs) == Concat([ i \in 1..Len(rs) |->
                              IF IsAlnumToken(rs[i].s) /\ fuzzyMatchAny(rs[i].s, list, 1)
                              THEN repl ELSE rs[i].s ])
    IN  Each(SplitW(s))

IsAllSpace(s) == s # <<>> /\ \A i \in 1..Len(s) : IsSpace(s[i])

RECURSIVE ReplPairs(_, _, _, _, _)
\* s.replace(/\b(first)\s+supports\b/ig, repl) over the runs of s, left to right
ReplPairs(rs, i, firsts, repl, acc) ==
    IF i > Len(rs) THEN acc
    ELSE LET Go(hit, nxt) ==
                 IF Len(nxt) < 0 THEN <<>>
                 ELSE ReplPairs(rs, IF hit THEN i + 3 ELSE i + 1, firsts, repl, nxt)
             On(hit) == Go(hit, IF hit THEN acc \o repl ELSE acc \o rs[i].s)
         IN  On(/\ rs[i].w
                /\ toLowerCase(rs[i].s) \in firsts
                /\ i + 2 <= Len(rs)
                /\ IsAllSpace(rs[i + 1].s)
                /\ toLowerCase(rs[i + 2].s) = NeutralVerb)

ReplaceBefore(s, firsts, repl) == ReplPairs(SplitW(s), 1, firsts, repl, <<>>)

\* s.replace(/\bsupports\b/ig, 'designed to support')
ReplaceSupports(s) ==
    LET Each(rs) == Concat([ i \in 1..Len(rs) |->
                              IF rs[i].w /\ toLowerCase(rs[i].s) = NeutralVerb
                              THEN <<"d","e","s","i","g","n","e","d"," ","t","o"," ","s","u","p","p","o","r","t">> (* designed to support *) ELSE rs[i].s ])
    IN  Each(SplitW(s))

rewriteMedical(text, shared, rb) ==
    LET neutralNoun == IF rb.neutral_noun # <<>> THEN rb.neutral_noun ELSE DefaultNeutralNoun
        s0 == normWS(text)
        s1 == FuzzyReplace(s0, shared.claim_verbs, NeutralVerb)
        s2 == FuzzyReplace(s1, shared.diseases, neutralNoun)
        s3 == ReplaceBefore(s2, { <<"h","e","l","p">> (* help *), <<"h","e","l","p","s">> (* helps *) }, <<"s","u","p","p","o","r","t","s">> (* supports *))
        s4 == ReplaceBefore(s3, { <<"s","u","p","p","o","r","t","s">> (* supports *) }, <<"s","u","p","p","o","r","t","s">> (* supports *))
        s5 == ReplaceBefore(s4, { <<"m","a","y">> }, <<"m","a","y"," ","s","u","p","p","o","r","t">> (* may support *))
        s6 == ReplaceBefore(s5, { <<"m","i","g","h","t">> (* might *) }, <<"m","i","g","h","t"," ","s","u","p","p","o","r","t">> (* might support *))
        Guard(s) == IF Len(s) < MinRewriteLen THEN SafeSentence ELSE s
        Styled(style) ==
            applyStyle(Guard(IF ~style.usedModal THEN ReplaceSupports(s6) ELSE s6), style)
    IN  Styled(detectStyle(text))

(* --------------------------- JSON values, fields ------------------------ *)
\* A JSON value: a string, an array, an object (its entries in key order) or a
\* non-zero number; Absent is a missing key (undefined).
VStr(s) == [k |-> "str", s |-> s, items |-> <<>>]
VArr(vals) == [k |-> "arr", s |-> <<>>,
               items |-> [i \in 1..Len(vals) |-> [key |-> <<>>, val |-> vals[i]]] \o <<>>]
VObj(entries) == [k |-> "obj", s |-> <<>>, items |-> entries]
Absent == [k |-> "none", s |-> <<>>, items |-> <<>>]
KV(key, val) == [key |-> key, val |-> val]

IsStr(v) == v.k = "str"
\* JavaScript truthiness: '' and undefined are falsy
Truthy(v) == v.k \in {"arr", "obj", "num", "deep"} \/ (v.k = "str" /\ v.s # <<>>)

HasKey(obj, key) == \E i \in 1..Len(obj.items) : obj.items[i].key = key
\* obj[key]
Field(obj, key) ==
    IF HasKey(obj, key)
    THEN obj.items[CHOOSE i \in 1..Len(obj.items) : obj.items[i].key = key].val
    ELSE Absent
\* { ...obj, [key]: val }
WithField(obj, key, val) ==
    IF HasKey(obj, key)
    THEN [obj EXCEPT !.items = [i \in 1..Len(obj.items) |->
                                  IF obj.items[i].key = key THEN KV(key, val) ELSE obj.items[i]]
                               \o <<>>]
    ELSE [obj EXCEPT !.items = Append(obj.items, KV(key, val))]

\* v.length (undefined compares false with every number: -1 here)
LengthOf(v) == IF v.k = "str" THEN Len(v.s) ELSE IF v.k = "arr" THEN Len(v.items) ELSE -1
\* v.slice(0, n) of a string or an array
SliceValue(v, n) ==
    IF v.k = "str" THEN VStr(SliceTo(v.s, n))
    ELSE [v EXCEPT !.items = SubSeq(v.items, 1, Min2(n, Len(v.items)))]

RECURSIVE ToStr(_)
\* String(v)
ToStr(v) ==
    CASE v.k = "str" -> v.s
      [] v.k = "num" -> <<"7">>
      [] v.k = "obj" -> <<"[","o","b","j","e","c","t"," ","O","b","j","e","c","t","]">> (* [object Object] *)
      [] v.k = "arr" -> Join([i \in 1..Len(v.items) |-> ToStr(v.items[i].val)], <<",">>)
      [] OTHER -> <<"u","n","d","e","f","i","n","e","d">> (* undefined *)

HttpPrefix(s) == StartsWith(toLowerCase(s), <<"h","t","t","p",":","/","/">> (* http:// *)) \/ StartsWith(toLowerCase(s), <<"h","t","t","p","s",":","/","/">> (* https:// *))

K_title == <<"t","i","t","l","e">> (* title *)
K_description == <<"d","e","s","c","r","i","p","t","i","o","n">> (* description *)
K_caption == <<"c","a","p","t","i","o","n">> (* caption *)
K_link == <<"l","i","n","k">> (* link *)
K_tags == <<"t","a","g","s">> (* tags *)
K_hashtags == <<"h","a","s","h","t","a","g","s">> (* hashtags *)

\* Object.values(fields).filter(v => typeof v === 'string').join(' ')
buildSearchText(fields) ==
    LET Joined(strs) == Join([i \in 1..Len(strs) |-> strs[i].val.s], <<" ">>)
    IN  Joined(SelectSeq(fields.items, LAMBDA e : IsStr(e.val)))

NoField == <<>>
\* the first of description, caption, title that is a string (NoField: null)
primaryTextField(fields) ==
    IF IsStr(Field(fields, K_description)) THEN K_description
    ELSE IF IsStr(Field(fields, K_caption)) THEN K_caption
    ELSE IF IsStr(Field(fields, K_title)) THEN K_title
    ELSE NoField

(* ------------------------- splitting tags, hashtags --------------------- *)
\* s.split(','): the pieces between the commas, empty ones included
SplitComma(s) ==
    LET Cut(commas, n) ==
            LET CommaAt(k) ==
                    IF k = 0 THEN 0
                    ELSE IF k = n + 1 THEN Len(s) + 1
                    ELSE CHOOSE i \in commas : Cardinality({ j \in commas : j <= i }) = k
            IN  [ k \in 1..(n + 1) |-> SubSeq(s, CommaAt(k - 1) + 1, CommaAt(k) - 1) ] \o <<>>
        At(commas) == Cut(commas, Cardinality(commas))
    IN  At({ i \in 1..Len(s) : s[i] = "," })

\* s.trim()
Trim(s) ==
    LET solid == { i \in 1..Len(s) : ~IsSpace(s[i]) }
    IN  IF solid = {} THEN <<>>
        ELSE SubSeq(s, CHOOSE i \in solid : \A j \in solid : i <= j,
                       CHOOSE i \in solid : \A j \in solid : j <= i)

NonEmpty(s) == s # <<>>
\* tags.split(',').map(s => s.trim()).filter(Boolean).length
TagCount(s) ==
    LET Count(parts) == Len(SelectSeq([i \in 1..Len(parts) |-> Trim(parts[i])] \o <<>>, NonEmpty))
    IN  Count(SplitComma(s))

\* hashtags.split(/[#\s,]+/): the runs between separators, with an empty piece
\* before a leading and after a trailing separator
SplitHash(s) ==
    LET rs == Runs(s, "nonhashsep")
        solid == RunStrings(SelectSeq(rs, IsClassRun))
        lead == IF s # <<>> /\ IsHashSep(s[1]) THEN << <<>> >> ELSE <<>>
        trail == IF s # <<>> /\ IsHashSep(s[Len(s)]) THEN << <<>> >> ELSE <<>>
    IN  IF s = <<>> THEN << <<>> >> ELSE lead \o solid \o trail
HashCount(s) == Len(SelectSeq(SplitHash(s), NonEmpty))

(* ------------------------- rulebooks, shared files ---------------------- *)
\* rules/shared.medical.json
SharedMedical ==
    [ claim_verbs |-> << <<"c","u","r","e">> (* cure *), <<"t","r","e","a","t">> (* treat *), <<"h","e","a","l">> (* heal *) >>,
      diseases |-> << <<"c","a","n","c","e","r">> (* cancer *), <<"f","l","u">> >> ]
\* rules/shared.counterfeit.json: a flat array of phrases
SharedCounterfeit == << <<"r","e","p","l","i","c","a">> (* replica *), <<"f","a","k","e">> (* fake *) >>

F_medical == <<"s","h","a","r","e","d",".","m","e","d","i","c","a","l",".","j","s","o","n">> (* shared.medical.json *)
F_counterfeit == <<"s","h","a","r","e","d",".","c","o","u","n","t","e","r","f","e","i","t",".","j","s","o","n">> (* shared.counterfeit.json *)

NoRewrite == [find |-> <<>>, replace |-> <<>>, hasReplace |-> FALSE]
Category(id, label, severity, ref, patterns, checks, rewrite) ==
    [ id |-> id, label |-> label, severity |-> severity, patterns_ref |-> ref,
      patterns |-> patterns, checks |-> checks, rewrite |-> rewrite ]

\* rules/shared.global.json: the categories every platform gets
SharedGlobalCategories ==
    << Category("counterfeit", "Counterfeit / replica goods", "high",
                F_counterfeit, <<>>, <<>>, NoRewrite) >>

\* readJSON(rules/<name>): the flat phrase list of a shared file, <<>> when the
\* file is missing or holds no array
SharedPhrases(file) ==
    IF file = F_counterfeit THEN SharedCounterfeit ELSE <<>>

\* resolvePatternsRef(ref) for a reference without a #section
resolvePatternsRef(ref) == IF ref = <<>> THEN <<>> ELSE SharedPhrases(ref)

(* ------------------------------ regexes --------------------------------- *)
\* a RegExp() that takes every pattern
RegexOk_Always(p) == TRUE
\* The rulebooks of this model write their inline patterns and rewrite.find
\* with letters, digits and blanks, which RegExp() reads as a literal, or
\* with an unbalanced "(", which RegExp() rejects with a SyntaxError.
RegexOk(p) == \A i \in 1..Len(p) : p[i] # "("
\* new RegExp(p, 'i').test(text) for a literal p
RegexTest(p, text) == Includes(toLowerCase(text), toLowerCase(p))

\* the first position >= i at which the literal find occurs in text, or 0
NextHit(text, find, i) ==
    LET First(hits) == IF hits = {} THEN 0 ELSE CHOOSE p \in hits : \A q \in hits : p <= q
        In(t, f) == First({ p \in i..(Len(t) - Len(f) + 1) : MatchAt(t, f, p) })
    IN  IF find = <<>> THEN 0 ELSE In(toLowerCase(text), toLowerCase(find))

RECURSIVE ReplaceFrom(_, _, _, _, _)
\* text.replace(new RegExp(find, 'ig'), repl) for a literal find, from position i
ReplaceFrom(text, find, repl, i, acc) ==
    LET Go(p, nxt) == IF Len(nxt) < 0 THEN <<>>
                      ELSE ReplaceFrom(text, find, repl, p + Len(find), nxt)
        At(p) == IF p = 0 THEN acc \o SubSeq(text, i, Len(text))
                 ELSE Go(p, acc \o SubSeq(text, i, p - 1) \o repl)
    IN  At(NextHit(text, find, i))
ReplaceAllCI(text, find, repl) == ReplaceFrom(text, find, repl, 1, <<>>)

(* ---------------------------- the rule engine --------------------------- *)
Issue(t, label, n, arg) == [t |-> t, label |-> label, n |-> n, arg |-> arg]
\* `<Field> exceeds <n> characters.` / `<Field> exceed <n> allowed.`
LimitIssue(field, n) == Issue("limit", field, n, <<>>)
\* 'Destination URL should start with http(s)://'
LinkIssue == Issue("link", "Destination URL should start with http(s)://", 0, <<>>)
\* a category's label
CategoryIssue(label) == Issue("category", label, 0, <<>>)
\* `No rulebook found for <p>`
NoRulebookIssue(p) == Issue("norulebook", "No rulebook found for", 0, p)
\* `<label> [<url>]`
ImageIssue(label, url) == Issue("image", label, 0, url)

Fix(field, suggestion, source) == [field |-> field, suggestion |-> suggestion, source |-> source]

PlatformsWithLinks ==
    { <<"p","i","n","t","e","r","e","s","t">> (* pinterest *), <<"y","o","u","t","u","b","e">> (* youtube *), <<"t","i","k","t","o","k">> (* tiktok *), <<"a","m","a","z","o","n">> (* amazon *), <<"i","n","s","t","a","g","r","a","m">> (* instagram *), <<"f","a","c","e","b","o","o","k">> (* facebook *),
      <<"x">>, <<"l","i","n","k","e","d","i","n">> (* linkedin *), <<"r","e","d","d","i","t">> (* reddit *), <<"s","n","a","p","c","h","a","t">> (* snapchat *), <<"e","b","a","y">> (* ebay *) }

ProximityWindow == 6
ExtraVerbs == << <<"f","d","a","a","p","p","r","o","v","e","d">> (* fdaapproved *), <<"f","d","a","c","l","e","a","r","e","d">> (* fdacleared *) >>

\* what checkWithRulebook has gathered so far; threw: an exception left it
Gathered(issues, fixes, high, threw) ==
    [issues |-> issues, fixes |-> fixes, high |-> high, threw |-> threw]

\* fields[key] || ''
OrEmpty(v) == IF Truthy(v) THEN v ELSE VStr(<<>>)

\* a limit that also refuses a text of exactly max characters
LengthLimit_AtLimit(acc, name, key, v, max) ==
    IF max # 0 /\ Truthy(v) /\ LengthOf(v) >= max
    THEN [acc EXCEPT !.issues = Append(@, LimitIssue(name, max)),
                     !.fixes = Append(@, Fix(key, SliceValue(v, max), ""))]
    ELSE acc

\* one length limit (title_max, description_max, caption_max)
LengthLimit(acc, name, key, v, max) ==
    IF max # 0 /\ Truthy(v) /\ LengthOf(v) > max
    THEN [acc EXCEPT !.issues = Append(@, LimitIssue(name, max)),
                     !.fixes = Append(@, Fix(key, SliceValue(v, max), ""))]
    ELSE acc

\* tags_max_count: tags.split is a TypeError unless tags is a string
TagsLimit(acc, tags, max) ==
    IF acc.threw THEN acc
    ELSE IF max # 0 /\ Truthy(tags)
    THEN IF ~IsStr(tags) THEN [acc EXCEPT !.threw = TRUE]
         ELSE IF TagCount(tags.s) > max
         THEN [acc EXCEPT !.issues = Append(@, LimitIssue("Tags", max)),
                          !.fixes = Append(@, Fix(K_tags,
                                VStr(Join(SubSeq(SplitComma(tags.s), 1,
                                                 Min2(max, Len(SplitComma(tags.s)))), <<",">>)), ""))]
         ELSE acc
    ELSE acc

\* hashtags_max_count: hashtags.split is a TypeError unless hashtags is a string
HashtagsLimit(acc, hashtags, max) ==
    IF acc.threw THEN acc
    ELSE IF max # 0 /\ Truthy(hashtags)
    THEN IF ~IsStr(hashtags) THEN [acc EXCEPT !.threw = TRUE]
         ELSE IF HashCount(hashtags.s) > max
         THEN [acc EXCEPT !.issues = Append(@, LimitIssue("Hashtags", max)),
                          !.fixes = Append(@, Fix(K_hashtags,
                                VStr(Join(SubSeq(SplitHash(hashtags.s), 1,
                                                 Min2(max, Len(SplitHash(hashtags.s)))), <<" ">>)), ""))]
         ELSE acc
    ELSE acc

\* the platform's own link check, outside the categories
LinkCheck(acc, platform, link) ==
    IF acc.threw THEN acc
    ELSE IF platform \in PlatformsWithLinks /\ Truthy(link) /\ ~HttpPrefix(ToStr(link))
    THEN [acc EXCEPT !.issues = Append(@, LinkIssue)]
    ELSE acc

\* if (suggestion && suggestion !== mainText) fixes.push({ field, suggestion })
PushFix(acc, field, suggestion, mainText) ==
    IF suggestion # <<>> /\ suggestion # mainText
    THEN [acc EXCEPT !.fixes = Append(@, Fix(field, VStr(suggestion), ""))]
    ELSE acc

LabelOr(cat, default) == IF cat.label = "" THEN default ELSE cat.label

IsMedicalRef(ref) == ref # <<>> /\ Includes(toLowerCase(ref), F_medical)

\* a category whose patterns_ref names shared.medical.json: proximity of a
\* claim verb and a disease, and the medical rewrite of the primary text
MedicalCategory(acc, cat, searchable, mainFieldKey, mainText, rb) ==
    IF verbNearNoun(searchable, SharedMedical.claim_verbs \o ExtraVerbs,
                    SharedMedical.diseases, ProximityWindow)
    THEN LET hit == [acc EXCEPT !.high = @ \/ cat.severity = "high",
                                !.issues = Append(@, CategoryIssue(
                                               LabelOr(cat, "Medical / Health Claims detected.")))]
         IN  IF ~IsStr(mainText)
             \* detectStyle: text.match is not a function
             THEN [hit EXCEPT !.threw = TRUE]
             ELSE PushFix(hit, mainFieldKey, rewriteMedical(mainText.s, SharedMedical, rb),
                          mainText.s)
    ELSE acc

\* a pattern entry that raises high only when it adds the label
PatternEntry_HighWithNewLabel(acc, cat, pattern, searchable, mainFieldKey, mainText) ==
    IF ~RegexOk(pattern) THEN acc
    ELSE IF ~RegexTest(pattern, searchable) THEN acc
    ELSE LET label == CategoryIssue(LabelOr(cat, "Policy issue detected."))
         IN  IF \E i \in 1..Len(acc.issues) : acc.issues[i] = label
             THEN acc
             ELSE [acc EXCEPT !.high = @ \/ cat.severity = "high",
                              !.issues = Append(@, label)]

\* one entry of a category's pattern list; a pattern RegExp() rejects, a
\* rewrite.find it rejects and a primary text without .replace are caught
PatternEntry(acc, cat, pattern, searchable, mainFieldKey, mainText) ==
    IF ~RegexOk(pattern) THEN acc
    ELSE IF ~RegexTest(pattern, searchable) THEN acc
    ELSE LET label == CategoryIssue(LabelOr(cat, "Policy issue detected."))
             hit == [acc EXCEPT !.high = @ \/ cat.severity = "high",
                                !.issues = IF \E i \in 1..Len(@) : @[i] = label
                                           THEN @ ELSE Append(@, label)]
         IN  IF cat.rewrite.find = <<>> \/ ~RegexOk(cat.rewrite.find) \/ ~IsStr(mainText)
             THEN hit
             ELSE PushFix(hit, mainFieldKey,
                          ReplaceAllCI(mainText.s, cat.rewrite.find,
                                       IF cat.rewrite.hasReplace THEN cat.rewrite.replace
                                       ELSE <<"n","e","u","t","r","a","l">> (* neutral *)),
                          mainText.s)

RECURSIVE PatternLoop(_, _, _, _, _, _, _)
\* for (const entry of all) { ... }
PatternLoop(acc, cat, all, j, searchable, mainFieldKey, mainText) ==
    IF j > Len(all) THEN acc
    ELSE LET Go(nxt) == IF Len(nxt.issues) < 0 THEN acc
                        ELSE PatternLoop(nxt, cat, all, j + 1, searchable, mainFieldKey, mainText)
         IN  Go(PatternEntry(acc, cat, all[j], searchable, mainFieldKey, mainText))

RECURSIVE ChecksLoop(_, _, _, _)
\* cat.checks.forEach: url_scheme_http_https adds the label, not deduplicated
ChecksLoop(acc, cat, j, link) ==
    IF j > Len(cat.checks) THEN acc
    ELSE LET Go(nxt) == IF Len(nxt.issues) < 0 THEN acc ELSE ChecksLoop(nxt, cat, j + 1, link)
         IN  Go(IF /\ cat.checks[j] = "url_scheme_http_https"
                   /\ Truthy(link)
                   /\ ~HttpPrefix(ToStr(link))
                THEN [acc EXCEPT !.high = @ \/ cat.severity = "high",
                                 !.issues = Append(@, CategoryIssue(
                                                LabelOr(cat, "Link policy issue.")))]
                ELSE acc)

\* the body of (rb.categories).forEach(cat => ...)
OneCategory(acc, cat, searchable, mainFieldKey, mainText, link, rb) ==
    IF IsMedicalRef(cat.patterns_ref)
    THEN MedicalCategory(acc, cat, searchable, mainFieldKey, mainText, rb)
    ELSE ChecksLoop(PatternLoop(acc, cat,
                                SelectSeq(resolvePatternsRef(cat.patterns_ref), NonEmpty)
                                \o SelectSeq(cat.patterns, NonEmpty),
                                1, searchable, mainFieldKey, mainText),
                    cat, 1, link)

RECURSIVE CategoryLoop(_, _, _, _, _, _, _, _)
\* an exception thrown in one category ends the whole evaluation
CategoryLoop(acc, cats, i, searchable, mainFieldKey, mainText, link, rb) ==
    IF i > Len(cats) \/ acc.threw THEN acc
    ELSE LET Go(nxt) ==
                 IF Len(nxt.issues) < 0 THEN acc
                 ELSE CategoryLoop(nxt, cats, i + 1, searchable, mainFieldKey, mainText, link, rb)
         IN  Go(OneCategory(acc, cats[i], searchable, mainFieldKey, mainText, link, rb))

checkWithRulebook(platform, fields, rb) ==
    LET title == OrEmpty(Field(fields, K_title))
        desc == OrEmpty(Field(fields, K_description))
        caption == OrEmpty(Field(fields, K_caption))
        link == OrEmpty(Field(fields, K_link))
        tags == OrEmpty(Field(fields, K_tags))
        hashtags == OrEmpty(Field(fields, K_hashtags))
        a0 == Gathered(<<>>, <<>>, FALSE, FALSE)
        a1 == LengthLimit(a0, "Title", K_title, title, rb.limits.title_max)
        a2 == LengthLimit(a1, "Description", K_description, desc, rb.limits.description_max)
        a3 == LengthLimit(a2, "Caption", K_caption, caption, rb.limits.caption_max)
        a4 == TagsLimit(a3, tags, rb.limits.tags_max_count)
        a5 == HashtagsLimit(a4, hashtags, rb.limits.hashtags_max_count)
        a6 == LinkCheck(a5, platform, link)
        searchable == buildSearchText(fields)
        mainFieldKey == IF primaryTextField(fields) # NoField THEN primaryTextField(fields)
                        ELSE K_description
        mainText == OrEmpty(Field(fields, mainFieldKey))
    IN  CategoryLoop(a6, rb.categories, 1, searchable, mainFieldKey, mainText, link, rb)

(* ------------------------------ rulebook store -------------------------- *)
NoRulebook == [ exists |-> FALSE, version |-> "", neutral_noun |-> <<>>, categories |-> <<>>,
                limits |-> [title_max |-> 0, description_max |-> 0, caption_max |-> 0,
                            tags_max_count |-> 0, hashtags_max_count |-> 0] ]

\* loadRulebook(platform): rules/<platform>.v1.json of the store, or null
loadRulebook(store, p) == IF p \in DOMAIN store THEN store[p] ELSE NoRulebook

\* a missing rulebook that does not set high
MissingRulebook_NotHigh(p) == Gathered(<< NoRulebookIssue(p) >>, <<>>, FALSE, FALSE)
\* if (!rb) return { issues:[`No rulebook found for ${p}`], fixes:[], high:true }
MissingRulebook(p) == Gathered(<< NoRulebookIssue(p) >>, <<>>, TRUE, FALSE)

\* runChecks: the missing rulebook is an issue, not an exception; the shared
\* global categories follow the platform's own
runChecks(store, platform, fields) ==
    LET Run(p, rb) ==
            IF ~rb.exists
            THEN MissingRulebook(p)
            ELSE checkWithRulebook(p, fields,
                                   [rb EXCEPT !.categories = @ \o SharedGlobalCategories])
        For(p) == Run(p, loadRulebook(store, p))
    IN  For(toLowerCase(platform))

\* a level that forgets the verdict without issues
LevelOf_NoGreen(issues, high) == IF high THEN "red" ELSE IF Len(issues) > 0 THEN "yellow" ELSE ""
\* issues.length === 0 ? 'green' : (high ? 'red' : 'yellow')
LevelOf(issues, high) == IF Len(issues) = 0 THEN "green" ELSE IF high THEN "red" ELSE "yellow"

(* ------------------------------ image helpers --------------------------- *)
ImgExts == { <<"p","n","g">>, <<"j","p","g">>, <<"j","p","e","g">> (* jpeg *), <<"g","i","f">>, <<"w","e","b","p">> (* webp *), <<"b","m","p">>, <<"t","i","f">>, <<"t","i","f","f">> (* tiff *), <<"s","v","g">> }

\* IMG_EXT = /\.(png|jpe?g|gif|webp|bmp|tiff?|svg)(\?.*)?$/i
HasImgExt(s) ==
    LET l == toLowerCase(s)
    IN  \E i \in 1..Len(l) : \E e \in ImgExts :
          /\ l[i] = "."
          /\ MatchAt(l, e, i + 1)
          /\ \/ i + Len(e) = Len(l)
             \/ /\ l[i + Len(e) + 1] = "?"
                /\ \A k \in (i + Len(e) + 1)..Len(l) : l[k] # "\n"

\* the key names as the code lists them; the lookup lower-cases the key
KEY_HINTS ==
    { <<"i","m","a","g","e">> (* image *), <<"i","m","a","g","e","_","u","r","l">> (* image_url *), <<"i","m","a","g","e","u","r","l">> (* imageurl *), <<"i","m","a","g","e","U","R","L">> (* imageURL *), <<"i","m","a","g","e","U","r","l">> (* imageUrl *),
      <<"t","h","u","m","b","n","a","i","l">> (* thumbnail *), <<"t","h","u","m","b">> (* thumb *), <<"c","o","v","e","r">> (* cover *), <<"b","a","n","n","e","r">> (* banner *), <<"p","h","o","t","o">> (* photo *), <<"p","i","c","t","u","r","e">> (* picture *), <<"p","i","c">>,
      <<"i","m","a","g","e","s">> (* images *), <<"p","h","o","t","o","s">> (* photos *), <<"m","e","d","i","a">> (* media *), <<"m","e","d","i","a","_","u","r","l">> (* media_url *), <<"m","e","d","i","a","U","r","l">> (* mediaUrl *), <<"m","e","d","i","a","U","R","L","s">> (* mediaURLs *),
      <<"m","e","d","i","a","U","r","l","s">> (* mediaUrls *) }

\* /^data:image\//i
LooksLikeData(s) == StartsWith(toLowerCase(s), <<"d","a","t","a",":","i","m","a","g","e","/">> (* data:image/ *))

\* [^\s"'()<>]
IsUrlCh(c) == ~IsSpace(c) /\ c \notin {"\"", "'", "(", ")", "<", ">"}
\* [a-z0-9+.\-] and [a-z0-9+/=\s] under the i flag
IsMimeCh(c) == IsAlnum(c) \/ c \in {"+", ".", "-"}
IsBase64Ch(c) == IsAlnum(c) \/ c \in {"+", "/", "="} \/ IsSpace(c)

\* the last position of the run of Class characters that starts at i (i - 1: none)
RunEnd(s, i, cls) ==
    LET In(c) == CASE cls = "url" -> IsUrlCh(c)
                   [] cls = "mime" -> IsMimeCh(c)
                   [] cls = "base64" -> IsBase64Ch(c)
        Before(stops) == IF stops = {} THEN Len(s)
                         ELSE (CHOOSE j \in stops : \A m \in stops : j <= m) - 1
    IN  Before({ j \in i..Len(s) : ~In(s[j]) })

\* the end of the match of /https?:\/\/[^\s"'()<>]+/i that starts at i, or 0
UrlMatchEnd(s, i) ==
    LET l == toLowerCase(Mid(s, i, i + 7))
        body == IF StartsWith(l, <<"h","t","t","p","s",":","/","/">> (* https:// *)) THEN i + 8
                ELSE IF StartsWith(l, <<"h","t","t","p",":","/","/">> (* http:// *)) THEN i + 7
                ELSE 0
        Ended(e) == IF e < body THEN 0 ELSE e
    IN  IF body = 0 THEN 0 ELSE Ended(RunEnd(s, body, "url"))

\* the end of the match of /data:image\/[a-z0-9+.\-]+;base64,[a-z0-9+/=\s]+/i
\* that starts at i, or 0
DataMatchEnd(s, i) ==
    LET Payload(from, e) == IF e >= from THEN e ELSE 0
        Mime(mimeEnd) ==
            IF /\ mimeEnd >= i + 11
               /\ toLowerCase(Mid(s, mimeEnd + 1, mimeEnd + 8)) = <<";","b","a","s","e","6","4",",">> (* ;base64, *)
            THEN Payload(mimeEnd + 9, RunEnd(s, mimeEnd + 9, "base64"))
            ELSE 0
    IN  IF toLowerCase(Mid(s, i, i + 10)) = <<"d","a","t","a",":","i","m","a","g","e","/">> (* data:image/ *)
        THEN Mime(RunEnd(s, i + 11, "mime"))
        ELSE 0

MatchEnd(s, i, kind) == IF kind = "url" THEN UrlMatchEnd(s, i) ELSE DataMatchEnd(s, i)

RECURSIVE MatchesFrom(_, _, _, _)
\* val.match(URL_LIKE) and val.match(DATA_LIKE): the matches left to right
MatchesFrom(s, i, kind, acc) ==
    LET Take(p, e, nxt) == IF Len(nxt) < 0 THEN acc ELSE MatchesFrom(s, e + 1, kind, nxt)
        At(p, e) == Take(p, e, Append(acc, SubSeq(s, p, e)))
        First(p) == At(p, MatchEnd(s, p, kind))
        Among(starts) == IF starts = {} THEN acc
                         ELSE First(CHOOSE q \in starts : \A r \in starts : q <= r)
    IN  Among({ p \in i..Len(s) : MatchEnd(s, p, kind) # 0 })

\* urls.add(u): a Set keeps the first insertion
AddUrl(urls, u) == IF \E i \in 1..Len(urls) : urls[i] = u THEN urls ELSE Append(urls, u)

RECURSIVE AddAll(_, _, _)
AddAll(urls, us, i) ==
    IF i > Len(us) THEN urls
    ELSE LET Go(nxt) == IF Len(nxt) < 0 THEN urls ELSE AddAll(nxt, us, i + 1)
         IN  Go(AddUrl(urls, us[i]))

\* collect(val, keyHint) for a string
CollectString(s, keyHint, urls) ==
    LET u1 == IF HttpPrefix(s) /\ (HasImgExt(s) \/ toLowerCase(keyHint) \in KEY_HINTS)
              THEN AddUrl(urls, s) ELSE urls
        u2 == IF LooksLikeData(s) THEN AddUrl(u1, s) ELSE u1
        u3 == AddAll(u2, SelectSeq(MatchesFrom(s, 1, "url", <<>>), HasImgExt), 1)
    IN  AddAll(u3, MatchesFrom(s, 1, "data", <<>>), 1)

\* const candidate = val.url || val.src || val.href
Candidate(obj) ==
    LET url == Field(obj, <<"u","r","l">>)
        src == Field(obj, <<"s","r","c">>)
    IN  IF Truthy(url) THEN url ELSE IF Truthy(src) THEN src ELSE Field(obj, <<"h","r","e","f">> (* href *))

CollectCandidate(obj, keyHint, urls) ==
    LET c == Candidate(obj)
    IN  IF ~IsStr(c) THEN urls
        ELSE LET u1 == IF HttpPrefix(c.s) /\ (HasImgExt(c.s) \/ toLowerCase(keyHint) \in KEY_HINTS)
                       THEN AddUrl(urls, c.s) ELSE urls
             IN  IF LooksLikeData(c.s) THEN AddUrl(u1, c.s) ELSE u1

\* the URLs gathered so far; threw: the walk ran out of stack (RangeError)
Walk(urls, threw) == [urls |-> urls, threw |-> threw]

RECURSIVE collect(_, _, _)
RECURSIVE CollectItems(_, _, _, _, _)
\* collect(val, keyHint); a value of kind "deep" is an array nested deeper
\* than the call stack allows
collect(val, keyHint, acc) ==
    IF acc.threw \/ ~Truthy(val) THEN acc
    ELSE CASE val.k = "str" -> Walk(CollectString(val.s, keyHint, acc.urls), FALSE)
           [] val.k = "arr" -> CollectItems(val.items, 1, TRUE, keyHint, acc)
           [] val.k = "obj" ->
                CollectItems(val.items, 1, FALSE, keyHint,
                             Walk(CollectCandidate(val, keyHint, acc.urls), FALSE))
           [] val.k = "deep" -> Walk(acc.urls, TRUE)
           [] OTHER -> acc

\* an array's items inherit the array's key; an object's values get their own
CollectItems(items, i, inherit, keyHint, acc) ==
    IF i > Len(items) THEN acc
    ELSE LET Go(nxt) == IF Len(nxt.urls) < 0 THEN acc
                        ELSE CollectItems(items, i + 1, inherit, keyHint, nxt)
         IN  Go(collect(items[i].val, IF inherit THEN keyHint ELSE items[i].key, acc))

extractImageUrls(fields) == collect(fields, <<>>, Walk(<<>>, FALSE))

\* parseDataUrl(url) # null:
\* /^data:(image\/[a-z0-9+.\-]+);base64,([a-z0-9+/=\s]+)$/i
parseDataUrlOk(url) == DataMatchEnd(url, 1) = Len(url) /\ Len(url) > 0

(* ---------------------------- URL token heuristics ---------------------- *)
\* pathish.indexOf(token, from - 1) + 1: the first occurrence at or behind
\* from, 0 when there is none
IndexOfFrom(pathish, token, from) ==
    LET hits == { p \in from..(Len(pathish) - Len(token) + 1) : MatchAt(pathish, token, p) }
    IN  IF hits = {} THEN 0 ELSE CHOOSE p \in hits : \A q \in hits : p <= q

\* a search that takes any occurrence
hasToken_Substring(pathish, token) == Includes(pathish, token)

RECURSIVE HasTokenFrom(_, _, _)
\* the while loop of hasToken: the occurrences from left to right, until one
\* has no [a-z0-9] in front of it and none behind it
HasTokenFrom(pathish, token, from) ==
    LET At(idx) ==
            IF idx = 0 THEN FALSE
            ELSE LET preOk == idx > 1 => ~IsAlnum(pathish[idx - 1])
                     postOk == idx + Len(token) <= Len(pathish)
                                   => ~IsAlnum(pathish[idx + Len(token)])
                 IN  IF preOk /\ postOk THEN TRUE
                     ELSE HasTokenFrom(pathish, token, idx + 1)
    IN  At(IndexOfFrom(pathish, token, from))

\* hasToken(token) of detectImageIssues
hasToken(pathish, token) == HasTokenFrom(pathish, token, 1)

AnyToken(pathish, tokens) == \E t \in tokens : hasToken(pathish, t)

\* /\bscan[-_]?me\b/i
HasScanMe(pathish) ==
    \E w \in { <<"s","c","a","n","m","e">> (* scanme *), <<"s","c","a","n","-","m","e">> (* scan-me *), <<"s","c","a","n","_","m","e">> (* scan_me *) } :
      \E idx \in 1..(Len(pathish) - Len(w) + 1) :
        /\ MatchAt(pathish, w, idx)
        /\ idx > 1 => ~IsWordCh(pathish[idx - 1])
        /\ idx + Len(w) <= Len(pathish) => ~IsWordCh(pathish[idx + Len(w)])

NsfwTokens == { <<"n","s","f","w">> (* nsfw *), <<"o","n","l","y","f","a","n","s">> (* onlyfans *), <<"p","o","r","n">> (* porn *), <<"x","x","x">>, <<"e","x","p","l","i","c","i","t">> (* explicit *), <<"a","d","u","l","t">> (* adult *) }
ViolenceTokens == { <<"g","o","r","e">> (* gore *), <<"b","l","o","o","d">> (* blood *), <<"b","e","h","e","a","d","i","n","g">> (* beheading *), <<"d","e","c","a","p">> (* decap *), <<"d","i","s","m","e","m","b","e","r">> (* dismember *) }

Finding(severity, label) == [severity |-> severity, label |-> label]
\* a fetch failure reported as a high finding
FetchFailed_High == Finding("high", "Image fetch failed (non-blocking)")
FetchFailed == Finding("medium", "Image fetch failed (non-blocking)")

\* Layer 1 of detectImageIssues
UrlTokenFindings(pathish) ==
    (IF AnyToken(pathish, NsfwTokens)
     THEN << Finding("high", "NSFW / Adult content (image hint)") >> ELSE <<>>)
    \o
    (IF AnyToken(pathish, ViolenceTokens)
     THEN << Finding("high", "Graphic violence (image hint)") >> ELSE <<>>)
    \o
    (IF \/ hasToken(pathish, <<"r","e","p","l","i","c","a">> (* replica *))
        \/ \E w \in { <<"s","u","p","e","r","c","o","p","y">> (* supercopy *), <<"s","u","p","e","r","-","c","o","p","y">> (* super-copy *), <<"s","u","p","e","r","_","c","o","p","y">> (* super_copy *) } : Includes(pathish, w)
        \/ \E w \in { <<"1",":","1">>, <<"1","-","1">>, <<"1","_","1">> } : Includes(pathish, w)
     THEN << Finding("high", "Counterfeit / Replica (image hint)") >> ELSE <<>>)
    \o
    (IF hasToken(pathish, <<"q","r","c","o","d","e">> (* qrcode *)) \/ HasScanMe(pathish) \/ hasToken(pathish, <<"q","r">>)
     THEN << Finding("medium", "QR / Scan code solicitation (image hint)") >> ELSE <<>>)

\* what layers 2-4 report on the bytes of a download: nothing on a regular
\* image, the payload note on bytes under 1KB that are no image, the size
\* and the payload notes on an image under 1KB and under the minimum size
ByteFindings(bytes) ==
    CASE bytes = "tiny" -> << Finding("medium", "Very small image payload (<1KB)") >>
      [] bytes = "smallimg" -> << Finding("medium", "Image too small"),
                                  Finding("medium", "Very small image payload (<1KB)") >>
      [] OTHER -> <<>>

NoFile == [path |-> <<>>, from |-> "none", bytes |-> "none"]

\* detectImageIssues(url, fileInfo, { urlOnly })
detectImageIssues(url, fileInfo, urlOnly) ==
    LET pathish == toLowerCase(url \o <<" ">> \o fileInfo.path)
        tokens == UrlTokenFindings(pathish)
    IN  IF fileInfo.bytes \in {"clean", "tiny", "smallimg"}
        THEN tokens \o ByteFindings(fileInfo.bytes)
        ELSE IF ~urlOnly /\ url # <<>> /\ HasImgExt(url)
        THEN Append(tokens, FetchFailed)
        ELSE tokens

\* url.replace(/[^a-z0-9]+/ig, '_').slice(0, 120)
SafeNameMax == 120
safeName(url) ==
    LET Each(rs) == Concat([i \in 1..Len(rs) |-> IF rs[i].w THEN rs[i].s ELSE <<"_">>])
    IN  SliceTo(Each(Runs(url, "alnum")), SafeNameMax)

\* a clean-up that removes nothing
cleanupFiles_Forgets(files, fileInfos) == files
\* fs.unlinkSync of every path of fileInfos that exists
cleanupFiles(files, fileInfos) ==
    files \ { fileInfos[i].path : i \in { j \in 1..Len(fileInfos) : fileInfos[j].path # <<>> } }

TmpDir == <<"/","a","p","p","/","d","a","t","a","/","i","m","a","g","e","s","/","t","m","p","/">> (* /app/data/images/tmp/ *)
ClockDigits == <<"1","2","3","4","5","6","7","8","9">> (* 123456789 *)
\* path.join(dir, `${ts}_${safeName}`)
TmpPath(ts, url) == TmpDir \o <<ClockDigits[ts]>> \o <<"_">> \o safeName(url)

(* ------------------------------ model assist ---------------------------- *)
DegradeSentence == <<"D","e","s","i","g","n","e","d"," ","f","o","r"," ","g","e","n","e","r","a","l"," ","u","s","e"," ","a","n","d"," ","c","o","m","p","l","i","a","n","t"," ","w","i","t","h"," ","p","l","a","t","f","o","r","m"," ","g","u","i","d","e","l","i","n","e","s",".">> (* Designed for general use and compliant with platform guidelines. *)
degradeToNeutral(original) == applyStyle(DegradeSentence, detectStyle(original))

\* the end of a run of \s that starts at i (i - 1: none)
SkipSpace(s, i) ==
    LET Before(solid) == IF solid = {} THEN Len(s)
                         ELSE (CHOOSE j \in solid : \A m \in solid : j <= m) - 1
    IN  Before({ j \in i..Len(s) : ~IsSpace(s[j]) })

ModelLabels == << <<"g","r","e","e","n">> (* green *), <<"y","e","l","l","o","w">> (* yellow *), <<"r","e","d">> >>
\* the label that /Label:\s*(green|yellow|red)/i captures at position i, or <<>>
LabelAt(s, i) ==
    LET Pick(hits) == IF hits = {} THEN <<>> ELSE ModelLabels[CHOOSE k \in hits : TRUE]
        Named(at) == Pick({ k \in 1..Len(ModelLabels) :
                             toLowerCase(Mid(s, at, at + Len(ModelLabels[k]) - 1))
                               = ModelLabels[k] })
    IN  IF toLowerCase(Mid(s, i, i + 5)) = <<"l","a","b","e","l",":">> (* label: *)
        THEN Named(SkipSpace(s, i + 6) + 1)
        ELSE <<>>

NoText == [has |-> FALSE, s |-> <<>>]
SomeText(s) == [has |-> TRUE, s |-> s]

parseModelOutput(text) ==
    LET Label(labelled) ==
            IF labelled = {} THEN <<"u","n","k","n","o","w","n">> (* unknown *)
            ELSE LabelAt(text, CHOOSE i \in labelled : \A j \in labelled : i <= j)
        Rewrite(rw) == IF rw = 0 THEN NoText
                       ELSE SomeText(Trim(SubSeq(text, rw + 8, Len(text))))
    IN  [ label |-> Label({ i \in 1..Len(text) : LabelAt(text, i) # <<>> }),
          rewrite |-> Rewrite(NextHit(text, <<"r","e","w","r","i","t","e",":">> (* rewrite: *), 1)) ]

(* ------------------------- rule files on disk --------------------------- *)
Limits(title, description, caption, tags, hashtags) ==
    [ title_max |-> title, description_max |-> description, caption_max |-> caption,
      tags_max_count |-> tags, hashtags_max_count |-> hashtags ]

\* rules/etsy.v1.json
RbEtsy ==
    [ exists |-> TRUE, version |-> "1.2", neutral_noun |-> <<>>,
      limits |-> Limits(14, 40, 0, 2, 0),
      categories |->
        << Category("medical", "Medical / Health Claims", "high", F_medical, <<>>, <<>>, NoRewrite),
           Category("hype", "Exaggerated claims", "medium", <<>>,
                    << <<"(","g","u","a","r","a","n","t","e","e">> (* (guarantee *), <<"m","i","r","a","c","l","e">> (* miracle *) >>, <<>>,
                    [find |-> <<"m","i","r","a","c","l","e">> (* miracle *), replace |-> <<"g","r","e","a","t">> (* great *), hasReplace |-> TRUE]),
           Category("links", "Unsafe link", "medium", <<>>, <<>>,
                    << "url_scheme_http_https" >>, NoRewrite) >> ]

\* rules/instagram.v1.json
RbInstagram ==
    [ exists |-> TRUE, version |-> "1.0", neutral_noun |-> <<"d","a","i","l","y"," ","w","e","l","l","n","e","s","s">> (* daily wellness *),
      limits |-> Limits(0, 0, 0, 0, 2),
      categories |->
        << Category("medical", "", "high", F_medical, <<>>, <<>>, NoRewrite) >> ]

\* the rules directory: platform |-> rulebook of rules/<platform>.v1.json
RuleFiles ==
    [ p \in { <<"e","t","s","y">> (* etsy *), <<"i","n","s","t","a","g","r","a","m">> (* instagram *) } |-> IF p = <<"e","t","s","y">> (* etsy *) THEN RbEtsy ELSE RbInstagram ]

(* ------------------------------- requests ------------------------------- *)
CleanText == <<"A"," ","s","i","m","p","l","e"," ","b","l","u","e"," ","m","u","g">> (* A simple blue mug *)
NsfwUrl == <<"h","t","t","p",":","/","/","h","/","n","s","f","w","_","1",".","p","n","g">> (* http://h/nsfw_1.png *)

Platforms == { <<"e","t","s","y">> (* etsy *), <<"I","n","s","t","a","g","r","a","m">> (* Instagram *), <<"m","y","s","p","a","c","e">> (* myspace *), <<"x","/","y">>, <<>> }

FieldsValues ==
    { VObj(<< KV(K_title, VStr(<<"B","l","u","e"," ","m","u","g">> (* Blue mug *))), KV(K_description, VStr(CleanText)) >>),
      VObj(<< KV(K_description, VStr(<<"T","h","i","s"," ","t","e","a"," ","c","u","r","e","s"," ","f","l","u"," ","f","a","s","t">> (* This tea cures flu fast *))) >>),
      VObj(<< KV(K_description, VStr(<<"T","h","i","s"," ","t","e","a"," ","c","u","r","e","s"," ","f","l","u"," ","f","a","s","t">> (* This tea cures flu fast *))), KV(<<"i","m","a","g","e">> (* image *), VStr(NsfwUrl)) >>),
      VObj(<< KV(K_description, VStr(<<"A"," ","m","i","r","a","c","l","e"," ","m","u","g","!">> (* A miracle mug! *))) >>),
      VObj(<< KV(K_title, VStr(<<"B","e","s","t"," ","f","l","u"," ","t","r","e","a","t","m","e","n","t","s">> (* Best flu treatments *))) >>),
      VObj(<< KV(K_description, VStr(CleanText)), KV(K_tags, VArr(<< VStr(<<"a">>), VStr(<<"b">>) >>)) >>),
      VObj(<< KV(K_description, VArr(<< VStr(<<"h","e","a","l","s"," ","c","a","n","c","e","r">> (* heals cancer *)) >>)),
              KV(<<"n","o","t","e">> (* note *), VStr(<<"h","e","a","l","s"," ","c","a","n","c","e","r">> (* heals cancer *))) >>),
      VObj(<< KV(K_description, VStr(CleanText)), KV(K_link, VStr(<<"f","t","p",":","/","/","h","/","x">> (* ftp://h/x *))),
              KV(K_tags, VStr(<<"a",","," ","b",",",",","c">> (* a, b,,c *))), KV(K_hashtags, VStr(<<"#","a"," ","#","b"," ","#","c">> (* #a #b #c *))) >>),
      VObj(<< KV(K_description, VStr(CleanText)), KV(K_link, VStr(<<"h",".","e","x","a","m","p","l","e","/","x">> (* h.example/x *))) >>),
      VObj(<< KV(<<"i","m","a","g","e">> (* image *), VStr(NsfwUrl)) >>),
      VObj(<< KV(K_description, VStr(CleanText)), KV(<<"t","h","u","m","b">> (* thumb *), VStr(<<"h","t","t","p",":","/","/","h","/","s","c","a","n","_","m","e","_","q","r",".","p","n","g">> (* http://h/scan_me_qr.png *))) >>),
      VObj(<< KV(K_description, VStr(<<"S","e","e"," ","h","t","t","p",":","/","/","h","/","m","u","g",".","p","n","g">> (* See http://h/mug.png *))) >>),
      VObj(<< KV(<<"m","e","d","i","a">> (* media *), VArr(<< VStr(<<"h","t","t","p",":","/","/","h","/","p","i","c">> (* http://h/pic *)), VStr(<<"d","a","t","a",":","i","m","a","g","e","/","p","n","g",";","b","a","s","e","6","4",",","*">> (* data:image/png;base64,* *)) >>)) >>),
      VObj(<< KV(<<"i","m","a","g","e","s">> (* images *), VArr(<< VObj(<< KV(<<"s","r","c">>, VStr(<<"h","t","t","p",":","/","/","h","/","g","o","r","e",".","j","p","g","?","s","=","1">> (* http://h/gore.jpg?s=1 *))) >>),
                                     VStr(<<"d","a","t","a",":","i","m","a","g","e","/","p","n","g",";","b","a","s","e","6","4",",","A","A","A","A">> (* data:image/png;base64,AAAA *)) >>)) >>),
      VObj(<< KV(K_description, VStr(<<"A"," ","m","i","r","a","c","l","e"," ","m","u","g","!">> (* A miracle mug! *))), KV(<<"m","e","d","i","a">> (* media *), [Absent EXCEPT !.k = "deep"]) >>) }

\* saveReceipts: left out, or the boolean false
SaveFlags == {"absent", "false"}

Requests ==
    [ platform : Platforms, fields : FieldsValues \cup {Absent}, strictMode : BOOLEAN,
      saveReceipts : SaveFlags, scanImages : BOOLEAN ]

NoRequest ==
    [ platform |-> <<>>, fields |-> Absent, strictMode |-> FALSE,
      saveReceipts |-> "absent", scanImages |-> TRUE ]

\* what the model endpoint can answer
ModelOutputs ==
    { <<"L","a","b","e","l",":"," ","g","r","e","e","n","\n","R","e","w","r","i","t","e",":"," ","A"," ","s","i","m","p","l","e"," ","m","u","g">> (* Label: green\nRewrite: A simple mug *),
      <<"L","a","b","e","l",":"," ","R","E","D","\n","R","e","w","r","i","t","e",":"," ","c","u","r","e","s"," ","f","l","u">> (* Label: RED\nRewrite: cures flu *),
      <<"R","e","w","r","i","t","e",":"," "," ">> (* Rewrite:   *),
      <<"n","o"," ","i","d","e","a">> (* no idea *) }
\* callOllama: the trimmed response, or an exception (no fetch, HTTP error, timeout)
ModelReplies == { [ok |-> TRUE, text |-> t] : t \in ModelOutputs } \cup { [ok |-> FALSE, text |-> <<>>] }

\* what downloadImage can meet
DownloadOutcomes == {"fail", "empty", "clean", "tiny", "smallimg"}

MaxClock == 2
\* the values Date.now() and new Date() can give
Clock == 1..MaxClock


(* ------------------ the heuristic server (first /api/check) ------------- *)
\* the first index from `from` on of a character of chars in s, Len(s) + 1 if none
FirstCh(s, chars, from) ==
    LET hits == { i \in from..Len(s) : s[i] \in chars }
    IN  IF hits = {} THEN Len(s) + 1 ELSE CHOOSE i \in hits : \A j \in hits : i <= j
\* the last index of a character of chars in s, 0 if none
LastCh(s, chars) ==
    LET hits == { i \in 1..Len(s) : s[i] \in chars }
    IN  IF hits = {} THEN 0 ELSE CHOOSE i \in hits : \A j \in hits : i >= j

\* new URL(u).hostname of an http(s) URL: the authority without userinfo and
\* port, lower-cased, an IPv6 literal with its brackets; <<>> where new URL throws
hostname(u) ==
    LET l == toLowerCase(u)
        start == IF StartsWith(l, <<"h","t","t","p","s",":","/","/">> (* https:// *)) THEN 9
                 ELSE IF StartsWith(l, <<"h","t","t","p",":","/","/">> (* http:// *)) THEN 8 ELSE 0
        stop == FirstCh(l, {"/", "?", "#", "\\"}, start)
        authority == Mid(l, start, stop - 1)
        hostport == Mid(authority, LastCh(authority, {"@"}) + 1, Len(authority))
    IN  IF start = 0 THEN <<>>
        ELSE IF StartsWith(hostport, <<"[">>)
             THEN Mid(hostport, 1, FirstCh(hostport, {"]"}, 1))
             ELSE Mid(hostport, 1, FirstCh(hostport, {":"}, 1) - 1)

isLocalhostUrl(u) ==
    hostname(u) \in { <<"l","o","c","a","l","h","o","s","t">> (* localhost *), <<"1","2","7",".","0",".","0",".","1">> (* 127.0.0.1 *), <<":",":","1">> }

IMAGE_RED_TOKENS ==
    << <<"n","s","f","w">> (* nsfw *), <<"o","n","l","y","f","a","n","s">> (* onlyfans *), <<"g","o","r","e">> (* gore *), <<"b","l","o","o","d">> (* blood *), <<"r","e","p","l","i","c","a">> (* replica *), <<"c","o","u","n","t","e","r","f","e","i","t">> (* counterfeit *), <<"k","n","o","c","k","o","f","f">> (* knockoff *) >>
IMAGE_YELLOW_TOKENS == << <<"q","r">> >>
\* tokens.some((tok) => lu.includes(tok))
SomeToken(tokens, lu) == \E i \in 1..Len(tokens) : Includes(lu, tokens[i])

UrlFinding(u, severity, label) == [url |-> u, severity |-> severity, label |-> label]
\* the body of urls.forEach in evaluateImages: the finding of u, if any
FindingsOfUrl(u) ==
    LET lu == toLowerCase(u)
    IN  IF SomeToken(IMAGE_RED_TOKENS, lu)
        THEN << UrlFinding(u, "high", "Prohibited image content") >>
        ELSE IF SomeToken(IMAGE_YELLOW_TOKENS, lu)
        THEN << UrlFinding(u, "medium", "QR code / manual review") >>
        ELSE IF ~isLocalhostUrl(u)
        THEN << UrlFinding(u, "medium", "Image present (manual review)") >>
        ELSE <<>>

evaluateImages(list) ==
    LET imageFindings == Concat([ i \in 1..Len(list) |-> FindingsOfUrl(list[i]) ])
    IN  [ imageFindings |-> imageFindings,
          hasRed |-> \E i \in 1..Len(imageFindings) : imageFindings[i].severity = "high",
          hasYellow |-> \E i \in 1..Len(imageFindings) : imageFindings[i].severity = "medium" ]

\* the first app.post("/api/check") for a body whose text raises the issues
\* textIssues and whose image URLs are list
HeuristicCheck(textIssues, list) ==
    LET ev == evaluateImages(list)
        red == textIssues # <<>> \/ ev.hasRed
        yellow == ev.hasYellow /\ ~red
    IN  [ level |-> IF red THEN "red" ELSE IF yellow THEN "yellow" ELSE "green",
          issues |-> textIssues,
          fixes |-> <<>>,
          imageFindings |-> ev.imageFindings ]
(* --------------------------- POST /api/check ---------------------------- *)
VARIABLES
    pc,             \* "idle", "scan" (awaiting a download), "model" (awaiting callOllama), "done"
    req,            \* req.body
    issues, fixes, high, level, imageFindings, model,   \* the handler's locals
    urls,           \* scanImagesFromFields: the URLs still to visit
    found,          \* scanImagesFromFields: found
    downloaded,     \* scanImagesFromFields: downloaded
    tmpFiles,       \* the files of data/images/tmp
    receipts,       \* the files of data/receipts
    resp,           \* the response sent
    first,          \* history: the result of step 1
    afterScan,      \* history: level and issues after step 2
    second,         \* history: the re-check of step 3
    afterFix,       \* history: level and issues after step 3
    recheck,        \* history: the re-check of step 4
    scanThrew,      \* history: scanImagesFromFields threw
    fetchLog,       \* history: the outcome of each download
    failure,        \* history: the step whose exception reached the outer catch
    call,           \* a call of one function of the engine: its arguments and result
    now,            \* Date.now() of the server
    dl,             \* the downloadImage call of each of the concurrent requests
    disk,           \* data/images/tmp as those requests see it: path and writer
    traversal,      \* a call of extractImageUrls on a heap of objects, step by step
    pending,        \* a request of one of the servers and what it awaits: a
                    \* download, the model, nothing more
    ruleStore,      \* the rules directory while PUT /api/rules/:platform rewrites it
    visit,          \* a request under such rewrites: where it waits and the
                    \* rulebook each of its steps has read
    engine,         \* history: the result of the engine run of its last step
    receiptLog      \* data/receipts under concurrent requests: the files, and the
                    \* number of saveReceipt calls that wrote them

handlerVars == << pc, req, issues, fixes, high, level, imageFindings, model, urls, found,
                  downloaded, tmpFiles, receipts, resp, first, afterScan, second,
                  afterFix, recheck, scanThrew, fetchLog, failure >>
callVars == << call >>
downloadVars == << now, dl, disk >>
walkVars == << traversal >>
receiptVars == << receiptLog >>
awaitVars == << pending >>
ruleVars == << ruleStore, visit, engine >>
vars == << handlerVars, callVars, downloadVars, walkVars, receiptVars, awaitVars, ruleVars >>
\* what the actions of one part leave alone
notHandler == << callVars, downloadVars, walkVars, receiptVars, awaitVars, ruleVars >>
notCall == << handlerVars, downloadVars, walkVars, receiptVars, awaitVars, ruleVars >>
notDownload == << handlerVars, callVars, walkVars, receiptVars, awaitVars, ruleVars >>
notWalk == << handlerVars, callVars, downloadVars, receiptVars, awaitVars, ruleVars >>
notReceipt == << handlerVars, callVars, dl, disk, walkVars, awaitVars, ruleVars >>
notAwait == << handlerVars, callVars, downloadVars, walkVars, receiptVars, ruleVars >>
notRule == << handlerVars, callVars, downloadVars, walkVars, receiptVars, awaitVars >>

Levels == {"green", "yellow", "red"}
\* const rank = { red:3, yellow:2, green:1 }
rank(l) == CASE l = "red" -> 3 [] l = "yellow" -> 2 [] l = "green" -> 1 [] OTHER -> 0

NoModel == [name |-> "", label |-> <<>>, rewrite |-> NoText, error |-> ""]
ModelName == "Llama 3.1 (local)"

NoResult == [ran |-> FALSE, threw |-> FALSE, level |-> "", issues |-> <<>>]
NoAnswer == [ran |-> FALSE, error |-> FALSE, level |-> "", issues |-> <<>>,
             label |-> <<>>, rewrite |-> NoText]
Unset == [issues |-> <<>>, fixes |-> <<>>, high |-> FALSE, level |-> ""]
NoBody == [level |-> "", issues |-> <<>>, fixes |-> <<>>, model |-> NoModel, imageFindings |-> <<>>]
NoResponse == [status |-> 0, body |-> NoBody]

\* the requests that run at the same time
Requesters == {"A", "B"}
NoCall == [op |-> "none", arg |-> <<>>, ret |-> <<>>]
NoDownload == [st |-> "idle", url |-> <<>>, path |-> <<>>]

NoPending == [server |-> "", pc |-> "idle", left |-> 0, ask |-> FALSE, timer |-> "off",
              got |-> 0, failed |-> 0, model |-> ""]
NoVisit == [pc |-> "idle", r |-> NoRequest, t |-> Unset, reads |-> <<>>]
NoReceipts == [files |-> {}, saved |-> 0]
NoWalk == [st |-> "none", heap |-> <<>>, stack |-> <<>>, seen |-> {}, urls |-> <<>>, leaf |-> <<>>]

Init ==
    /\ call = NoCall
    /\ traversal = NoWalk /\ receiptLog = NoReceipts /\ pending = NoPending
    /\ ruleStore = RuleFiles /\ visit = NoVisit /\ engine = NoResult
    /\ now = 1
    /\ dl = [r \in Requesters |-> NoDownload]
    /\ disk = {}
    /\ pc = "idle"
    /\ req = NoRequest
    /\ issues = <<>> /\ fixes = <<>> /\ high = FALSE /\ level = ""
    /\ imageFindings = <<>> /\ model = NoModel
    /\ urls = <<>> /\ found = <<>> /\ downloaded = <<>>
    /\ tmpFiles = {} /\ receipts = {}
    /\ resp = NoResponse
    /\ first = Gathered(<<>>, <<>>, FALSE, FALSE)
    /\ afterScan = Unset /\ second = NoResult /\ afterFix = [level |-> "", issues |-> <<>>]
    /\ recheck = NoAnswer
    /\ scanThrew = FALSE /\ fetchLog = <<>> /\ failure = "none"

\* a merge that forgets the severity of the findings
MergeFindings_HighForgotten(t, findings) ==
    IF findings = <<>> THEN t
    ELSE [t EXCEPT !.issues = @ \o [i \in 1..Len(findings) |->
                                      ImageIssue(findings[i].label, findings[i].url)],
                   !.level = IF t.high THEN "red" ELSE "yellow"]
\* step 2: every finding becomes an issue, a high one sets high
MergeFindings(t, findings) ==
    IF findings = <<>> THEN t
    ELSE LET merged == [t EXCEPT
                 !.issues = @ \o [i \in 1..Len(findings) |->
                                    ImageIssue(findings[i].label, findings[i].url)],
                 !.high = @ \/ \E i \in 1..Len(findings) : findings[i].severity = "high"]
         IN  [merged EXCEPT !.level = LevelOf(merged.issues, merged.high)]

\* step 3: the engine runs again on the fields with the suggested fix of the
\* primary text field
FixRecheckIn(store, r, t) ==
    LET Second(run) ==
            IF run.threw THEN [NoResult EXCEPT !.threw = TRUE]
            ELSE [ran |-> TRUE, threw |-> FALSE,
                  level |-> LevelOf(run.issues, run.high), issues |-> run.issues]
        Suggested(mainField, mine) ==
            IF mine = <<>> \/ ~Truthy(mine[1].suggestion) THEN NoResult
            ELSE Second(runChecks(store, r.platform,
                                  WithField(r.fields, mainField, mine[1].suggestion)))
        Main(mainField) ==
            Suggested(mainField,
                      SelectSeq(t.fixes, LAMBDA f : mainField # NoField /\ f.field = mainField))
    IN  Main(primaryTextField(r.fields))
\* step 3 on the rules directory as the handler of one request finds it
FixRecheck(r, t) == FixRecheckIn(RuleFiles, r, t)

\* a step 3 that takes every re-checked level
AdoptSecond_Always(secondLevel, current) == TRUE
\* rank[secondLevel] <= rank[level]
AdoptSecond(secondLevel, current) == rank(secondLevel) <= rank(current)
\* a step 4 with the comparison turned round
AdoptRecheck_Reversed(reLevel, current) == rank(reLevel) > rank(current)
\* rank[reLevel] < rank[level]
AdoptRecheck(reLevel, current) == rank(reLevel) < rank(current)

\* step 4 asks the model when the level is not green and the platform has a rulebook
AsksModel(r, lvl) == lvl # "green" /\ loadRulebook(RuleFiles, toLowerCase(r.platform)).exists

ModelError == [NoModel EXCEPT !.name = ModelName, !.error = "error"]

\* step 4 after callOllama, reply.ok = FALSE being its exception: the parsed
\* answer and the engine's run on the fields with the model's rewrite
ModelAssistIn(store, r, reply) ==
    LET Rechecked(parsed, run) ==
            IF run.threw THEN [NoAnswer EXCEPT !.error = TRUE]
            ELSE [ran |-> TRUE, error |-> FALSE,
                  level |-> LevelOf(run.issues, run.high), issues |-> run.issues,
                  label |-> parsed.label, rewrite |-> parsed.rewrite]
        Parsed(mainField, parsed) ==
            IF ~parsed.rewrite.has \/ parsed.rewrite.s = <<>>
            THEN [NoAnswer EXCEPT !.label = parsed.label]
            ELSE Rechecked(parsed,
                           runChecks(store, r.platform,
                                     WithField(r.fields,
                                               IF mainField # NoField THEN mainField
                                               ELSE K_description,
                                               VStr(parsed.rewrite.s))))
    IN  IF ~reply.ok THEN [NoAnswer EXCEPT !.error = TRUE]
        ELSE Parsed(primaryTextField(r.fields), parseModelOutput(reply.text))
\* step 4 on the rules directory as the handler of one request finds it
ModelAssist(r, reply) == ModelAssistIn(RuleFiles, r, reply)

\* a rewrite that is degraded whenever its re-check is not green
FinalRewrite_DegradedInAnyMode(r, answer) ==
    IF answer.level # "green" THEN degradeToNeutral(answer.rewrite.s) ELSE answer.rewrite.s

\* finalRewrite: strict mode neutralises a rewrite that still is not green
FinalRewrite(r, answer) ==
    IF r.strictMode /\ answer.level # "green"
    THEN degradeToNeutral(answer.rewrite.s) ELSE answer.rewrite.s

\* a model that loses the error of the call
ModelOf_ErrorLost(r, answer) == [NoModel EXCEPT !.name = ModelName, !.label = answer.label]
\* the model of the response
ModelOf(r, answer) ==
    IF answer.error THEN ModelError
    ELSE IF ~answer.ran THEN [NoModel EXCEPT !.name = ModelName, !.label = answer.label]
    ELSE [ name |-> ModelName, label |-> answer.label,
           rewrite |-> SomeText(FinalRewrite(r, answer)), error |-> "" ]

\* (typeof saveReceipts === 'boolean') ? saveReceipts : true
ShouldSave(r) == r.saveReceipts # "false"
\* receipt-<platform>-<ts>.json lies in a directory that does not exist when
\* the platform holds a path separator: writeFileSync throws
WriteFails(platform) == \E i \in 1..Len(platform) : platform[i] = "/"

Receipt(r, ts, body) ==
    [ file |-> [platform |-> r.platform, ts |-> ts],
      level |-> body.level, issues |-> body.issues, fixesCount |-> Len(body.fixes),
      rulebookVersion |->
          IF loadRulebook(RuleFiles, toLowerCase(r.platform)).exists
          THEN loadRulebook(RuleFiles, toLowerCase(r.platform)).version ELSE "unknown",
      imageFindings |-> body.imageFindings,
      model |-> [name |-> body.model.name, label |-> body.model.label,
                 hadError |-> body.model.error # ""],
      strictMode |-> r.strictMode ]

\* writeFileSync replaces a file of the same name
saveReceipt(files, receipt) == { f \in files : f.file # receipt.file } \cup {receipt}

\* the outer catch: res.status(500).json({ error: 'Server error' })
ServerError(step) ==
    /\ pc' = "done"
    /\ resp' = [status |-> 500, body |-> NoBody]
    /\ failure' = step

\* the receipt and res.json({ level, issues, fixes, model, imageFindings }),
\* of the locals as the steps leave them
Respond(r) ==
    IF ShouldSave(r) /\ WriteFails(r.platform)
    THEN ServerError("receipt") /\ receipts' = receipts
    ELSE /\ pc' = "done"
         /\ resp' = [status |-> 200,
                     body |-> [level |-> level', issues |-> issues', fixes |-> fixes',
                               model |-> model', imageFindings |-> imageFindings']]
         /\ failure' = failure
         /\ IF ShouldSave(r)
            THEN \E ts \in Clock : receipts' = saveReceipt(receipts, Receipt(r, ts, resp'.body))
            ELSE receipts' = receipts

\* steps 2 (its end), 3 and 4 up to the call of the model, or to the response
\* when the model is not asked; t is what steps 1-2 hold before the merge
AfterScan(r, t) ==
    /\ imageFindings' = found'
    /\ afterScan' = MergeFindings(t, found')
    /\ high' = afterScan'.high
    /\ fixes' = afterScan'.fixes
    /\ second' = FixRecheck(r, afterScan')
    /\ afterFix' = IF second'.ran /\ r.strictMode /\ AdoptSecond(second'.level, afterScan'.level)
                   THEN [level |-> second'.level, issues |-> second'.issues]
                   ELSE [level |-> afterScan'.level, issues |-> afterScan'.issues]
    /\ level' = afterFix'.level
    /\ issues' = afterFix'.issues
    /\ recheck' = recheck
    /\ IF second'.threw
       THEN ServerError("engine") /\ UNCHANGED << model, receipts >>
       ELSE IF AsksModel(r, afterFix'.level)
       THEN /\ pc' = "model"
            /\ UNCHANGED << model, receipts, resp, failure >>
       ELSE /\ model' = NoModel
            /\ Respond(r)

\* the handler from the request to its first await, or to the response
Check(r) ==
    /\ pc = "idle"
    /\ req' = r
    /\ UNCHANGED << downloaded, tmpFiles, fetchLog, notHandler >>
    /\ IF r.platform = <<>> \/ r.fields = Absent
       THEN /\ pc' = "done"
            /\ resp' = [status |-> 400, body |-> NoBody]
            /\ UNCHANGED << issues, fixes, high, level, imageFindings, model, urls, found,
                            receipts, first, afterScan, second, afterFix, recheck,
                            scanThrew, failure >>
       ELSE /\ first' = runChecks(RuleFiles, r.platform, r.fields)
            /\ found' = <<>>
            /\ IF first'.threw
               THEN /\ ServerError("engine")
                    /\ UNCHANGED << issues, fixes, high, level, imageFindings, model,
                                    urls, receipts, afterScan, second, afterFix,
                                    recheck, scanThrew >>
               ELSE /\ LET walk == IF r.scanImages THEN extractImageUrls(r.fields)
                                   ELSE Walk(<<>>, FALSE)
                       IN  /\ scanThrew' = walk.threw
                           /\ urls' = IF walk.threw THEN <<>> ELSE walk.urls
                    /\ IF urls' # <<>>
                       THEN /\ pc' = "scan"
                            /\ issues' = first'.issues /\ fixes' = first'.fixes
                            /\ high' = first'.high
                            /\ level' = LevelOf(first'.issues, first'.high)
                            /\ UNCHANGED << imageFindings, model, receipts, resp, afterScan,
                                            second, afterFix, recheck, failure >>
                       ELSE AfterScan(r, [issues |-> first'.issues, fixes |-> first'.fixes,
                                          high |-> first'.high,
                                          level |-> LevelOf(first'.issues, first'.high)])

\* the findings of one URL: [url, severity, label]
Tag(url, hits) ==
    [i \in 1..Len(hits) |-> [url |-> url, severity |-> hits[i].severity, label |-> hits[i].label]]
    \o <<>>

\* one pass of the loop of scanImagesFromFields: the URL-only findings, the
\* download and the findings on its bytes; after the last URL the temporary
\* files are removed and the handler runs on to its next await
Download(outcome, ts) ==
    /\ pc = "scan"
    /\ LET url == Head(urls)
           isData == LooksLikeData(url)
           ok == outcome # "fail"
           info == [ path |-> IF isData THEN <<>> ELSE TmpPath(ts, url),
                     from |-> IF isData THEN "dataurl" ELSE "http",
                     bytes |-> outcome ]
       IN  /\ isData => (ok <=> parseDataUrlOk(url))
           /\ (~ok \/ isData) => ts = 1
           /\ urls' = Tail(urls)
           /\ found' = found \o Tag(url, detectImageIssues(url, NoFile, TRUE))
                             \o IF ok THEN Tag(url, detectImageIssues(url, info, FALSE))
                                ELSE IF HasImgExt(url)
                                THEN Tag(url, << FetchFailed >>)
                                ELSE <<>>
           /\ downloaded' = IF ok THEN Append(downloaded, info) ELSE downloaded
           /\ fetchLog' = Append(fetchLog, [url |-> url, outcome |-> outcome])
           /\ UNCHANGED << req, first, scanThrew, notHandler >>
           /\ IF urls' # <<>>
              THEN /\ tmpFiles' = IF info.from = "http" /\ ok
                                  THEN tmpFiles \cup {info.path} ELSE tmpFiles
                   /\ UNCHANGED << pc, issues, fixes, high, level, imageFindings, model,
                                   receipts, resp, afterScan, second, afterFix, recheck,
                                   failure >>
              ELSE /\ tmpFiles' = cleanupFiles(IF info.from = "http" /\ ok
                                               THEN tmpFiles \cup {info.path} ELSE tmpFiles,
                                               SelectSeq(downloaded', LAMBDA f : f.from = "http"))
                   /\ AfterScan(req, [issues |-> issues, fixes |-> fixes, high |-> high,
                                      level |-> level])

\* the handler after callOllama settles
ModelReply(reply) ==
    /\ pc = "model"
    /\ recheck' = ModelAssist(req, reply)
    /\ model' = ModelOf(req, recheck')
    /\ LET adopt == recheck'.ran /\ req.strictMode /\ AdoptRecheck(recheck'.level, level)
       IN  /\ level' = IF adopt THEN recheck'.level ELSE level
           /\ issues' = IF adopt THEN recheck'.issues ELSE issues
    /\ fixes' = IF /\ recheck'.ran /\ ~req.strictMode
                   /\ primaryTextField(req.fields) # NoField
                   /\ FinalRewrite(req, recheck') # <<>>
                THEN Append(fixes, Fix(primaryTextField(req.fields),
                                       VStr(FinalRewrite(req, recheck')), "model"))
                ELSE fixes
    /\ UNCHANGED << req, high, imageFindings, urls, found, downloaded, tmpFiles, first,
                    afterScan, second, afterFix, scanThrew, fetchLog, notHandler >>
    /\ Respond(req)

Next ==
    \/ \E r \in Requests : Check(r)
    \/ \E outcome \in DownloadOutcomes : \E ts \in Clock : Download(outcome, ts)
    \/ \E reply \in ModelReplies : ModelReply(reply)

Spec == Init /\ [][Next]_vars

(* ------------------- downloadImage of concurrent requests --------------- *)
\* the image URLs the concurrent requests scan; the last two differ only in
\* characters that safeName replaces
ScannedUrls == { NsfwUrl, <<"h","t","t","p",":","/","/","h","/","m","u","g",".","p","n","g">> (* http://h/mug.png *), <<"h","t","t","p",":","/","/","h","/","m","u","g","_","p","n","g">> (* http://h/mug_png *) }

\* the milliseconds pass
Tick ==
    /\ now < MaxClock
    /\ now' = now + 1
    /\ UNCHANGED << dl, disk, notDownload >>

\* downloadImage up to its await of fetch: ts, safeName and fp are fixed
StartDownload(r, url) ==
    /\ dl[r].st = "idle"
    /\ dl' = [dl EXCEPT ![r] = [st |-> "fetching", url |-> url, path |-> TmpPath(now, url)]]
    /\ UNCHANGED << now, disk, notDownload >>

\* fetch settles: writeFileSync(fp, buf) and the return of the file info, or
\* the exception of a failed fetch
FinishDownload(r, ok) ==
    /\ dl[r].st = "fetching"
    /\ IF ok
       THEN /\ disk' = { f \in disk : f.path # dl[r].path }
                       \cup { [path |-> dl[r].path, writer |-> r] }
            /\ dl' = [dl EXCEPT ![r].st = "held"]
       ELSE /\ disk' = disk
            /\ dl' = [dl EXCEPT ![r].st = "done"]
    /\ UNCHANGED << now, notDownload >>

\* cleanupFiles of the request at the end of its scan
CleanupDownload(r) ==
    /\ dl[r].st = "held"
    /\ disk' = { f \in disk : f.path # dl[r].path }
    /\ dl' = [dl EXCEPT ![r].st = "done"]
    /\ UNCHANGED << now, notDownload >>

\* the request is answered and the next one of the client arrives
NextRequest(r) ==
    /\ dl[r].st = "done"
    /\ dl' = [dl EXCEPT ![r] = NoDownload]
    /\ UNCHANGED << now, disk, notDownload >>

NextDownloads ==
    \/ Tick
    \/ \E r \in Requesters : \E url \in ScannedUrls : StartDownload(r, url)
    \/ \E r \in Requesters : \E ok \in BOOLEAN : FinishDownload(r, ok)
    \/ \E r \in Requesters : CleanupDownload(r)
    \/ \E r \in Requesters : NextRequest(r)

SpecDownloads == Init /\ [][NextDownloads]_vars

(* ---------------------- calls of the engine's functions ----------------- *)
\* the sequences of at most n elements of S
SeqsUpTo(S, n) == UNION { [1..k -> S] : k \in 0..n }

\* the value a function call leaves in call
Called(op, arg, ret) == [op |-> op, arg |-> arg, ret |-> ret]

\* the caller takes the result
Return ==
    /\ call.op # "none"
    /\ call' = NoCall
    /\ UNCHANGED notCall

MaxWords == 3
ProximityWords == { <<"c","u","r","e","s">> (* cures *), <<"c","u","e","r">> (* cuer *), <<"c","a","n","c","e","r">> (* cancer *), <<"t","h","e">> }
\* the texts of at most MaxWords words
ProximityTexts == { Join(ws, <<" ">>) : ws \in SeqsUpTo(ProximityWords, MaxWords) }
\* claim_verbs and diseases of a call
ProximityLists ==
    { [verbs |-> << <<"c","u","r","e">> (* cure *), <<"h","e","a","l">> (* heal *) >>, nouns |-> << <<"c","a","n","c","e","r">> (* cancer *) >>],
      [verbs |-> << <<"c","u","r","e">> (* cure *) >>, nouns |-> << <<"c","a","r","e">> (* care *) >>],
      [verbs |-> << >>, nouns |-> << <<"c","a","n","c","e","r">> (* cancer *) >>] }
WindowSizes == {0, 1, ProximityWindow}

CallVerbNearNoun(text, l, w) ==
    /\ call.op = "none"
    /\ call' = Called("verbNearNoun",
                      [text |-> text, verbs |-> l.verbs, nouns |-> l.nouns, windowSize |-> w],
                      verbNearNoun(text, l.verbs, l.nouns, w))
    /\ UNCHANGED notCall

MaxWordLen == 3
\* the first argument: every word of at most MaxWordLen letters a and c, and
\* words in mixed case
EditWords == SeqsUpTo({"a", "c"}, MaxWordLen) \cup { <<"c","a","t">>, <<"C","a","t">>, <<"A","C","T">>, <<"c","A","t","c">> (* cAtc *) }
\* the second argument: the terms of a list
EditTerms == { <<>>, <<"c","a">>, <<"c","a","t">>, <<"a","c","t">>, <<"a","t","c">>, <<"C","A","T">>, <<"t","a","c","c">> (* tacc *) }

CallEditDistance(a, b) ==
    /\ call.op = "none"
    /\ call' = Called("editDistance", [a |-> a, b |-> b], editDistance(a, b))
    /\ UNCHANGED notCall

MaxTextLen == 3
\* the texts of at most MaxTextLen characters, and some longer ones
StyleTexts ==
    SeqsUpTo({"a", "B", " ", ".", "!"}, MaxTextLen)
    \cup { <<"W","o","w","!">> (* Wow! *), <<"B","i","g"," ","B","l","u","e"," ","M","u","g",".">> (* Big Blue Mug. *), <<"t","h","i","s"," ","m","a","y"," ","h","e","l","p","!","!","!">> (* this may help!!! *), CleanText }

\* applyStyle(x, detectStyle(x))
CallApplyStyle(x) ==
    /\ call.op = "none"
    /\ call' = Called("applyStyle", [text |-> x, style |-> detectStyle(x)],
                      applyStyle(x, detectStyle(x)))
    /\ UNCHANGED notCall

\* a shared fragment that is missing: shared?.claim_verbs || [], shared?.diseases || []
NoShared == [claim_verbs |-> <<>>, diseases |-> <<>>]
\* text || '' of the call: the empty text stands for a missing one too
MedicalTexts == { <<>>, <<"c","a","n","c","e","r">> (* cancer *), <<"C","u","r","e","s"," ","C","a","n","c","e","r">> (* Cures Cancer *), <<"t","h","i","s"," ","m","a","y"," ","h","e","l","p"," ","c","u","r","e"," ","t","h","e"," ","f","l","u","!">> (* this may help cure the flu! *), <<"h","e","l","p">> (* help *) }
\* rulebooks by their rewrite.neutral_noun: none, a phrase, exclamation marks only
MedicalRulebooks ==
    { NoRulebook, RbInstagram,
      [NoRulebook EXCEPT !.exists = TRUE, !.neutral_noun = Repeat("!", MinRewriteLen)] }

CallRewriteMedical(text, shared, rb) ==
    /\ call.op = "none"
    /\ call' = Called("rewriteMedical", [text |-> text, shared |-> shared, rb |-> rb],
                      rewriteMedical(text, shared, rb))
    /\ UNCHANGED notCall

MaxTitleMax == 3
\* fields.title of a call: strings around the limits, a medical claim, an
\* array, and no title
Titles ==
    { VStr(<<>>), VStr(<<"a","b">>), VStr(<<"a","b","c">>), VStr(<<"a","b","c","d">> (* abcd *)), VStr(<<"C","u","r","e","s"," ","f","l","u">> (* Cures flu *)),
      VArr(<< VStr(<<"a">>), VStr(<<"b">>), VStr(<<"c">>), VStr(<<"d">>) >>), Absent }
\* checkWithRulebook(platform, fields, rb) for the title limit: etsy's
\* rulebook with limits.title_max from 0 (no limit) to MaxTitleMax
TitleCalls ==
    { [platform |-> <<"e","t","s","y">> (* etsy *), fields |-> VObj(<< KV(K_title, t) >>),
       rb |-> [RbEtsy EXCEPT !.limits = Limits(m, 0, 0, 0, 0)]] :
      t \in Titles, m \in 0..MaxTitleMax }

CallCheckWithRulebook(c) ==
    /\ call.op = "none"
    /\ call' = Called("checkWithRulebook", c, checkWithRulebook(c.platform, c.fields, c.rb))
    /\ UNCHANGED notCall

\* a links category with inline patterns and checks
LinksCategory(patterns, checks) ==
    Category("links", "Unsafe link", "medium", <<>>, patterns, checks, NoRewrite)
\* checkWithRulebook for one category that has patterns and the
\* url_scheme_http_https check, on links with and without http(s)
LabelCalls ==
    { [platform |-> <<"e","t","s","y">> (* etsy *),
       fields |-> VObj(<< KV(K_description, VStr(d)), KV(K_link, VStr(l)) >>),
       rb |-> [RbEtsy EXCEPT !.limits = Limits(0, 0, 0, 0, 0),
                             !.categories = << LinksCategory(ps, cs) >>]] :
      d \in { CleanText, <<"f","e","t","c","h"," ","t","h","e"," ","m","u","g"," ","b","y"," ","f","t","p">> (* fetch the mug by ftp *) },
      l \in { <<>>, <<"f","t","p",":","/","/","h","/","x">> (* ftp://h/x *), <<"h","t","t","p",":","/","/","h","/","x">> (* http://h/x *) },
      ps \in { <<>>, << <<"f","t","p">> >>, << <<"f","t","p">>, <<"m","u","g">> >> },
      cs \in { <<>>, << "url_scheme_http_https" >> } }

\* rules/etsy.v1.json with a medical category, an ftp category of patterns and
\* a links category of checks that has the label of the ftp category
RbOrder ==
    [RbEtsy EXCEPT !.limits = Limits(0, 0, 0, 0, 0),
                   !.categories =
                      << Category("medical", "Medical / Health Claims", "medium", F_medical,
                                  <<>>, <<>>, NoRewrite),
                         Category("ftp", "Unsafe link", "high", <<>>, << <<"f","t","p">> >>, <<>>,
                                  NoRewrite),
                         LinksCategory(<<>>, << "url_scheme_http_https" >>) >>]
\* the rules directory of these calls
OrderRules == [ p \in { <<"e","t","s","y">> (* etsy *) } |-> RbOrder ]
\* req.body.fields of the calls: clean, one or several categories matched, and
\* a description that is no string under a medical claim in the tags
OrderFields ==
    { VObj(<< KV(K_description, d), KV(K_link, VStr(l)), KV(K_tags, VStr(t)) >>) :
        d \in { VStr(CleanText), VStr(<<"f","e","t","c","h"," ","t","h","e"," ","f","a","k","e"," ","m","u","g"," ","b","y"," ","f","t","p">> (* fetch the fake mug by ftp *)),
                VStr(<<"t","h","i","s"," ","t","e","a"," ","c","u","r","e","s"," ","f","l","u">> (* this tea cures flu *)), VArr(<< VStr(CleanText) >>) },
        l \in { <<>>, <<"f","t","p",":","/","/","h","/","x">> (* ftp://h/x *), <<"h","t","t","p",":","/","/","h","/","x">> (* http://h/x *) },
        t \in { <<>>, <<"c","u","r","e","s"," ","f","l","u">> (* cures flu *) } }

CallRunChecks(platform, fields) ==
    /\ call.op = "none"
    /\ call' = Called("runChecks", [platform |-> platform, fields |-> fields],
                      runChecks(OrderRules, platform, fields))
    /\ UNCHANGED notCall

\* responses of the model in and out of the two-line format
ParseTexts ==
    ModelOutputs
    \cup { <<>>, <<"L","a","b","e","l",":"," ","g","r","e","e","n">> (* Label: green *), <<"R","e","w","r","i","t","e",":"," ","c","u","r","e","s"," ","f","l","u">> (* Rewrite: cures flu *), <<"L","a","b","e","l",":"," ","b","l","u","e","\n","R","e","w","r","i","t","e",":"," ","A"," ","m","u","g">> (* Label: blue\nRewrite: A mug *),
           <<"L","a","b","e","l",":"," ","y","e","l","l","o","w","\n","R","e","w","r","i","t","e",":"," ","A"," ","m","u","g">> (* Label: yellow\nRewrite: A mug *) }

CallParseModelOutput(text) ==
    /\ call.op = "none"
    /\ call' = Called("parseModelOutput", text, parseModelOutput(text))
    /\ UNCHANGED notCall


\* image URLs of a request to the heuristic server: the loopback hosts the
\* tests serve their fixtures from, and remote hosts
LoopbackHosts == { <<"l","o","c","a","l","h","o","s","t",":","3","0","0","0">> (* localhost:3000 *), <<"1","2","7",".","0",".","0",".","1",":","3","0","0","0">> (* 127.0.0.1:3000 *), <<"[",":",":","1","]",":","3","0","0","0">> (* [::1]:3000 *) }
RemoteHosts == { <<"h">>, <<"c","d","n",".","l","o","c","a","l","h","o","s","t",".","s","h","o","p">> (* cdn.localhost.shop *) }
ImagePaths == { <<"/","t","e","s","t","s","/","f","i","x","t","u","r","e","s","/","p","r","o","d","u","c","t","_","c","l","e","a","n",".","j","p","g">> (* /tests/fixtures/product_clean.jpg *), <<"/","t","e","s","t","s","/","f","i","x","t","u","r","e","s","/","s","c","a","n","_","m","e","_","q","r",".","p","n","g">> (* /tests/fixtures/scan_me_qr.png *),
                <<"/","t","e","s","t","s","/","f","i","x","t","u","r","e","s","/","N","S","F","W","_","1",".","p","n","g">> (* /tests/fixtures/NSFW_1.png *), <<"/","t","e","s","t","s","/","f","i","x","t","u","r","e","s","/","g","o","r","e","_","b","l","o","o","d","_","s","c","e","n","e",".","j","p","g">> (* /tests/fixtures/gore_blood_scene.jpg *) }
UrlOf(host, path) == <<"h","t","t","p",":","/","/">> (* http:// *) \o host \o path
\* the issues the text heuristics can raise
TextIssues == { <<>>, << "Counterfeit / replica claim detected." >> }

\* POST /api/check { platform, fields: { caption, image: UrlOf(host, path) } }
CallHeuristicCheck(textIssues, host, path) ==
    /\ call.op = "none"
    /\ call' = Called("heuristicCheck",
                      [textIssues |-> textIssues, host |-> host, path |-> path],
                      HeuristicCheck(textIssues, << UrlOf(host, path) >>))
    /\ UNCHANGED notCall

\* a hype category whose inline patterns hold one that RegExp() rejects, in
\* front of, between and behind patterns it accepts, and a later category
BadPatternLists ==
    { << <<"(","g","u","a","r","a","n","t","e","e">> (* (guarantee *) >>, << <<"(","g","u","a","r","a","n","t","e","e">> (* (guarantee *), <<"m","i","r","a","c","l","e">> (* miracle *) >>, << <<"m","i","r","a","c","l","e">> (* miracle *), <<"(","g","u","a","r","a","n","t","e","e">> (* (guarantee *) >>,
      << <<"b","e","s","t">> (* best *), <<"(","g","u","a","r","a","n","t","e","e">> (* (guarantee *), <<"m","i","r","a","c","l","e">> (* miracle *) >>, << <<"m","i","r","a","c","l","e">> (* miracle *) >> }
RegexCalls ==
    { [platform |-> <<"e","t","s","y">> (* etsy *),
       fields |-> VObj(<< KV(K_description, VStr(d)) >>),
       rb |-> [RbEtsy EXCEPT !.limits = Limits(0, 0, 0, 0, 0),
                             !.categories =
                                << Category("hype", "Exaggerated claims", sev, <<>>, ps, <<>>,
                                            NoRewrite),
                                   Category("wares", "Household goods", "medium", <<>>,
                                            << <<"m","u","g">> >>, <<>>, NoRewrite) >>]] :
      d \in { CleanText, <<"A"," ","m","i","r","a","c","l","e"," ","m","u","g"," ","(","g","u","a","r","a","n","t","e","e","d",")">> (* A miracle mug (guaranteed) *), <<"T","h","e"," ","b","e","s","t"," ","(","g","u","a","r","a","n","t","e","e","d",")"," ","t","e","a">> (* The best (guaranteed) tea *) },
      ps \in BadPatternLists,
      sev \in { "medium", "high" } }

\* an http URL without image extension
PlainUrl == <<"h","t","t","p",":","/","/","h","/","p","i","c">> (* http://h/pic *)
\* keys of fields, as the code names them in KEY_HINTS and as clients write them
HintedKeys ==
    { <<"i","m","a","g","e">> (* image *), <<"I","m","a","g","e">> (* Image *), <<"I","M","A","G","E","_","U","R","L">> (* IMAGE_URL *), <<"i","m","a","g","e","U","r","l">> (* imageUrl *), <<"t","h","u","m","b","n","a","i","l">> (* thumbnail *), <<"m","e","d","i","a">> (* media *),
      <<"m","e","d","i","a","U","r","l">> (* mediaUrl *), <<"m","e","d","i","a","U","R","L","s">> (* mediaURLs *), <<"t","i","t","l","e">> (* title *), <<"l","i","n","k">> (* link *), <<"u","r","l">> }
\* fields with one key: an http URL without image extension as the value, as
\* the item of an array, or as the url of an object
KeyedUrl(key, shape) ==
    VObj(<< KV(key, CASE shape = "str" -> VStr(PlainUrl)
                      [] shape = "arr" -> VArr(<< VStr(PlainUrl) >>)
                      [] shape = "obj" -> VObj(<< KV(<<"u","r","l">>, VStr(PlainUrl)) >>)) >>)

CallExtractImageUrls(key, shape) ==
    /\ call.op = "none"
    /\ call' = Called("extractImageUrls", [key |-> key, shape |-> shape],
                      extractImageUrls(KeyedUrl(key, shape)))
    /\ UNCHANGED notCall

MaxPathLen == 4
\* URLs over a letter of the token in both cases, another letter and a separator
PathChars == {"a", "A", "q", "-"}
TokenUrls == SeqsUpTo(PathChars, MaxPathLen) \cup { <<"h","t","t","p",":","/","/","h","/","a","d","u","l","t","h","o","o","d",".","p","n","g">> (* http://h/adulthood.png *), <<"h","t","t","p",":","/","/","h","/","A","d","u","l","t",".","p","n","g">> (* http://h/Adult.png *) }
SearchTokens == { <<"a">>, <<"a","a">>, <<"q","a">>, <<"a","d","u","l","t">> (* adult *) }

\* hasToken(token) within detectImageIssues(url, null, { urlOnly: true })
CallHasToken(url, token) ==
    /\ call.op = "none"
    /\ call' = Called("hasToken",
                      [pathish |-> toLowerCase(url \o <<" ">>), token |-> token],
                      hasToken(toLowerCase(url \o <<" ">>), token))
    /\ UNCHANGED notCall
NextCalls ==
    \/ Return
    \/ \E text \in ProximityTexts : \E l \in ProximityLists : \E w \in WindowSizes :
          CallVerbNearNoun(text, l, w)
    \/ \E a \in EditWords : \E b \in EditTerms : CallEditDistance(a, b)
    \/ \E x \in StyleTexts : CallApplyStyle(x)
    \/ \E text \in MedicalTexts : \E shared \in {SharedMedical, NoShared} :
          \E rb \in MedicalRulebooks : CallRewriteMedical(text, shared, rb)
    \/ \E c \in TitleCalls \cup LabelCalls \cup RegexCalls : CallCheckWithRulebook(c)
    \/ \E platform \in { <<"e","t","s","y">> (* etsy *), <<"E","t","s","y">> (* Etsy *), <<"m","y","s","p","a","c","e">> (* myspace *) } : \E fields \in OrderFields :
          CallRunChecks(platform, fields)
    \/ \E text \in ParseTexts : CallParseModelOutput(text)
    \/ \E textIssues \in TextIssues : \E host \in LoopbackHosts \cup RemoteHosts :
          \E path \in ImagePaths : CallHeuristicCheck(textIssues, host, path)
    \/ \E key \in HintedKeys : \E shape \in {"str", "arr", "obj"} :
          CallExtractImageUrls(key, shape)
    \/ \E url \in TokenUrls : \E token \in SearchTokens : CallHasToken(url, token)

SpecCalls == Init /\ [][NextCalls]_vars

(* ------------------ extractImageUrls on objects that share -------------- *)
\* fields as JavaScript holds it: the objects and arrays are nodes and their
\* entries refer to nodes, so a structure can contain itself
MaxItems == 2
\* the depth of calls after which the engine throws a RangeError
MaxStack == 6
Nodes == {"root", "list", "meta", "leaf"}
Entry(key, ref) == [key |-> key, ref |-> ref]
\* { media: list, meta: meta } with the array list and the object meta = { url: ... }
HeapOf(listRefs, metaRefs) ==
    [ n \in Nodes |->
        CASE n = "root" -> [k |-> "obj", s |-> <<>>,
                            items |-> << Entry(<<"m","e","d","i","a">> (* media *), "list"), Entry(<<"m","e","t","a">> (* meta *), "meta") >>]
          [] n = "list" -> [k |-> "arr", s |-> <<>>,
                            items |-> [i \in 1..Len(listRefs) |-> Entry(<<>>, listRefs[i])] \o <<>>]
          [] n = "meta" -> [k |-> "obj", s |-> <<>>,
                            items |-> [i \in 1..Len(metaRefs) |-> Entry(<<"u","r","l">>, metaRefs[i])] \o <<>>]
          [] n = "leaf" -> [k |-> "str", s |-> PlainUrl, items |-> <<>>] ]
WalkHeaps == { HeapOf(l, m) : l \in SeqsUpTo(Nodes, MaxItems), m \in SeqsUpTo(Nodes, 1) }

\* the object of node ref as val.url || val.src || val.href reads it
ViewOf(heap, ref) ==
    VObj([ i \in 1..Len(heap[ref].items) |->
             KV(heap[ref].items[i].key,
                IF heap[heap[ref].items[i].ref].k = "str"
                THEN VStr(heap[heap[ref].items[i].ref].s) ELSE VObj(<<>>)) ] \o <<>>)

\* the key hints a string of these heaps can be collected under
WalkKeys == << <<>>, <<"m","e","d","i","a">> (* media *), <<"m","e","t","a">> (* meta *), <<"u","r","l">> >>
\* collect(val, keyHint) for the string of the leaf, by key hint: what it adds
\* to an empty urls
LeafUrls == [ i \in 1..Len(WalkKeys) |-> CollectString(PlainUrl, WalkKeys[i], <<>>) ] \o <<>>
\* collect of a string: urls.add of each URL it holds (w.leaf is LeafUrls)
CollectLeaf(w, key) ==
    AddAll(w.urls, w.leaf[CHOOSE i \in 1..Len(WalkKeys) : WalkKeys[i] = key], 1)

Frame(ref, key, inherit) == [node |-> ref, i |-> 1, key |-> key, inherit |-> inherit]

\* collect(val, keyHint) up to its loop over the entries of val
Enter(w, ref, key) ==
    IF Len(w.stack) >= MaxStack THEN [w EXCEPT !.st = "threw"]
    ELSE CASE w.heap[ref].k = "str" ->
                [w EXCEPT !.urls = CollectLeaf(w, key)]
           [] w.heap[ref].k = "arr" ->
                [w EXCEPT !.stack = Append(@, Frame(ref, key, TRUE))]
           [] w.heap[ref].k = "obj" ->
                IF ref \in w.seen THEN w
                ELSE [w EXCEPT !.seen = @ \cup {ref},
                               !.urls = CollectCandidate(ViewOf(w.heap, ref), key, @),
                               !.stack = Append(@, Frame(ref, key, FALSE))]

\* extractImageUrls(fields): collect(fields, '')
StartWalk(heap) ==
    /\ traversal.st = "none"
    /\ traversal' = Enter([NoWalk EXCEPT !.st = "running", !.heap = heap, !.leaf = LeafUrls],
                        "root", <<>>)
    /\ UNCHANGED notWalk

\* one turn of the innermost loop: the next entry is collected, or the loop
\* ends and collect returns to its caller
WalkStep ==
    /\ traversal.st = "running"
    /\ LET depth == Len(traversal.stack)
       IN  IF depth = 0
           THEN traversal' = [traversal EXCEPT !.st = "returned"]
           ELSE LET f == traversal.stack[depth]
                    items == traversal.heap[f.node].items
                IN  IF f.i > Len(items)
                    THEN traversal' = [traversal EXCEPT !.stack = SubSeq(@, 1, depth - 1)]
                    ELSE traversal' = Enter([traversal EXCEPT !.stack[depth].i = f.i + 1],
                                            items[f.i].ref,
                                            IF f.inherit THEN f.key ELSE items[f.i].key)
    /\ UNCHANGED notWalk

\* the caller has the URLs, or the RangeError
EndWalk ==
    /\ traversal.st \in {"returned", "threw"}
    /\ traversal' = NoWalk
    /\ UNCHANGED notWalk

NextWalk ==
    \/ \E heap \in WalkHeaps : StartWalk(heap)
    \/ WalkStep
    \/ EndWalk

\* a call that has started goes on running
SpecWalk == Init /\ [][NextWalk]_vars /\ WF_vars(WalkStep)

(* ------------------- saveReceipt of concurrent requests ----------------- *)
MaxSaved == 3
ReceiptPlatforms == { <<"e","t","s","y">> (* etsy *), <<"e","b","a","y">> (* ebay *) }

\* the clock of the server moves on between two requests
ReceiptTick ==
    /\ now < MaxClock
    /\ now' = now + 1
    /\ UNCHANGED << receiptLog, notReceipt >>

\* the end of a request with shouldSave: saveReceipt(platform, payload) at the
\* time now, with the verdict the request came to
SaveReceipt(platform, lv) ==
    /\ receiptLog.saved < MaxSaved
    /\ receiptLog' =
          [ files |-> saveReceipt(receiptLog.files,
                                  Receipt([NoRequest EXCEPT !.platform = platform], now,
                                          [NoBody EXCEPT !.level = lv])),
            saved |-> receiptLog.saved + 1 ]
    /\ UNCHANGED << now, notReceipt >>

NextReceipts ==
    \/ ReceiptTick
    \/ \E platform \in ReceiptPlatforms : \E lv \in Levels : SaveReceipt(platform, lv)

SpecReceipts == Init /\ [][NextReceipts]_vars

(* ------------------- the awaits of a request and their timers ----------- *)
MaxUrls == 3
\* the upload-capable server and the server of the latest version
Servers == {"uploads", "latest"}

\* the next await of the handler: downloadImage of the next URL, then
\* callOllama when the level is not green, then res.json
NextAwait(p) ==
    IF p.left > 0
    THEN [p EXCEPT !.pc = "download",
                   !.timer = IF p.server = "latest" THEN "armed" ELSE "off"]
    ELSE IF p.ask /\ p.model = ""
    THEN [p EXCEPT !.pc = "model", !.timer = "armed"]
    ELSE [p EXCEPT !.pc = "responded", !.timer = "off"]

\* POST /api/check with n http image URLs in fields
Arrive(server, n, ask) ==
    /\ pending.pc = "idle"
    /\ pending' = NextAwait([NoPending EXCEPT !.server = server, !.left = n, !.ask = ask])
    /\ UNCHANGED notAwait

\* the image host answers: downloadImage returns, or throws on an HTTP error
FetchSettles(ok) ==
    /\ pending.pc = "download"
    /\ pending' = NextAwait([pending EXCEPT !.left = @ - 1,
                                            !.got = IF ok THEN @ + 1 ELSE @,
                                            !.failed = IF ok THEN @ ELSE @ + 1])
    /\ UNCHANGED notAwait

\* setTimeout(() => controller.abort(new Error('img_timeout')), 5000) fires:
\* fetch rejects and the catch of scanImagesFromFields goes on to the next URL
DownloadTimeout ==
    /\ pending.pc = "download"
    /\ pending.timer = "armed"
    /\ pending' = NextAwait([pending EXCEPT !.left = @ - 1, !.failed = @ + 1])
    /\ UNCHANGED notAwait

\* the model endpoint answers
ModelSettles ==
    /\ pending.pc = "model"
    /\ pending' = NextAwait([pending EXCEPT !.model = "answered"])
    /\ UNCHANGED notAwait

\* setTimeout(() => controller.abort(new Error('ollama_timeout')), timeoutMs)
\* fires: callOllama throws and the handler sets model = { error }
ModelTimeout ==
    /\ pending.pc = "model"
    /\ pending.timer = "armed"
    /\ pending' = NextAwait([pending EXCEPT !.model = "error"])
    /\ UNCHANGED notAwait

\* the response is sent and the next request arrives
NextArrival ==
    /\ pending.pc = "responded"
    /\ pending' = NoPending
    /\ UNCHANGED notAwait

NextAwaits ==
    \/ \E server \in Servers : \E n \in 0..MaxUrls : \E ask \in BOOLEAN : Arrive(server, n, ask)
    \/ \E ok \in BOOLEAN : FetchSettles(ok)
    \/ DownloadTimeout
    \/ ModelSettles
    \/ ModelTimeout
    \/ NextArrival

\* a timer that is set fires; whether a host answers is up to the host
SpecAwaits ==
    Init /\ [][NextAwaits]_vars /\ WF_vars(DownloadTimeout) /\ WF_vars(ModelTimeout)

(* ------------------- a request while the rulebook is rewritten ----------- *)
\* what PUT /api/rules/etsy can write: the rulebook as it is, one of a new
\* version without the hype category, one of the same version with the hype
\* category raised to high
RbEtsyRelaxed ==
    [RbEtsy EXCEPT !.version = "1.3",
                   !.categories = SelectSeq(@, LAMBDA c : c.id # "hype")]
RbEtsyRaised ==
    [RbEtsy EXCEPT !.categories =
        [ i \in 1..Len(@) |-> IF @[i].id = "hype" THEN [@[i] EXCEPT !.severity = "high"]
                              ELSE @[i] ] \o <<>>]
RuleEdits == { RbEtsy, RbEtsyRelaxed, RbEtsyRaised }

MugUrl == <<"h","t","t","p",":","/","/","h","/","m","u","g",".","p","n","g">> (* http://h/mug.png *)
\* requests for etsy with a text the hype category meets, or a clean one, and
\* an image to download
RuleRequests ==
    { [ platform |-> <<"e","t","s","y">> (* etsy *),
        fields |-> VObj(<< KV(K_description, VStr(d)), KV(<<"i","m","a","g","e">> (* image *), VStr(MugUrl)) >>),
        strictMode |-> s, saveReceipts |-> "absent", scanImages |-> TRUE ] :
      d \in { <<"A"," ","m","i","r","a","c","l","e"," ","m","u","g">> (* A miracle mug *), CleanText }, s \in BOOLEAN }

\* PUT /api/rules/:platform: writeJSON(rules/<platform>.v1.json, body)
PutRules(platform, rb) ==
    /\ ruleStore' = [ p \in DOMAIN ruleStore \cup {platform} |->
                        IF p = platform THEN rb ELSE ruleStore[p] ]
    /\ UNCHANGED << visit, engine, notRule >>

\* loadRulebook(platform) by a step of the handler: what the step reads
Read(by, store, r) == [by |-> by, rb |-> loadRulebook(store, toLowerCase(r.platform))]

\* the receipt, with loadRulebook(...)?.version, and the response
FinishVisit(v, store) ==
    [v EXCEPT !.pc = "done", !.reads = Append(@, Read("receipt", store, v.r))]

\* step 1 and the scan up to its await of downloadImage
BeginVisit(r) ==
    /\ visit.pc = "idle"
    /\ engine' = runChecks(ruleStore, r.platform, r.fields)
    /\ visit' = [ pc |-> "scan", r |-> r,
                  t |-> [issues |-> engine'.issues, fixes |-> engine'.fixes,
                         high |-> engine'.high,
                         level |-> LevelOf(engine'.issues, engine'.high)],
                  reads |-> << Read("check", ruleStore, r) >> ]
    /\ UNCHANGED << ruleStore, notRule >>

\* step 2 when the download has settled: the findings of the image merged
\* into the verdict of step 1
ScanMerged(t, ok) ==
    LET info == [path |-> TmpPath(1, MugUrl), from |-> "http", bytes |-> "clean"]
    IN  MergeFindings(t, Tag(MugUrl, detectImageIssues(MugUrl, NoFile, TRUE))
                         \o IF ok THEN Tag(MugUrl, detectImageIssues(MugUrl, info, FALSE))
                            ELSE Tag(MugUrl, << FetchFailed >>))

\* steps 3 and 4 up to the await of callOllama, or to the response when the
\* model is not asked; rerun is the re-check of step 3
AfterFix(v, store, merged, rerun) ==
    LET adopt == rerun.ran /\ v.r.strictMode /\ AdoptSecond(rerun.level, merged.level)
        Asked(v3) ==
            IF rerun.threw THEN [v3 EXCEPT !.pc = "done"]
            ELSE IF v3.t.level = "green" THEN FinishVisit(v3, store)
            ELSE IF loadRulebook(store, toLowerCase(v.r.platform)).exists
            THEN [v3 EXCEPT !.pc = "model", !.reads = Append(@, Read("prompt", store, v.r))]
            ELSE FinishVisit([v3 EXCEPT !.reads = Append(@, Read("prompt", store, v.r))],
                             store)
    IN  Asked([v EXCEPT
                 !.t = IF adopt THEN [merged EXCEPT !.level = rerun.level,
                                                    !.issues = rerun.issues]
                       ELSE merged,
                 !.reads = IF rerun.ran \/ rerun.threw
                           THEN Append(@, Read("fix re-check", store, v.r)) ELSE @])

\* the download settles; steps 2 to 4
AfterDownload(ok) ==
    /\ visit.pc = "scan"
    /\ engine' = FixRecheckIn(ruleStore, visit.r, ScanMerged(visit.t, ok))
    /\ visit' = AfterFix(visit, ruleStore, ScanMerged(visit.t, ok), engine')
    /\ UNCHANGED << ruleStore, notRule >>

\* step 4 behind callOllama: answer is the parsed reply and its re-check
AfterAnswer(v, store, answer) ==
    LET adopt == answer.ran /\ v.r.strictMode /\ AdoptRecheck(answer.level, v.t.level)
    IN  FinishVisit([v EXCEPT
                       !.t = IF adopt THEN [@ EXCEPT !.level = answer.level,
                                                     !.issues = answer.issues]
                             ELSE @,
                       !.reads = IF answer.ran
                                 THEN Append(@, Read("model re-check", store, v.r))
                                 ELSE @],
                    store)

\* callOllama settles; the re-check of the rewrite, the receipt and the response
AfterModel(reply) ==
    /\ visit.pc = "model"
    /\ engine' = ModelAssistIn(ruleStore, visit.r, reply)
    /\ visit' = AfterAnswer(visit, ruleStore, engine')
    /\ UNCHANGED << ruleStore, notRule >>

\* the response is out and the next request arrives
LeaveVisit ==
    /\ visit.pc = "done"
    /\ visit' = NoVisit
    /\ UNCHANGED << ruleStore, engine, notRule >>

NextRules ==
    \/ \E rb \in RuleEdits : PutRules(<<"e","t","s","y">> (* etsy *), rb)
    \/ \E r \in RuleRequests : BeginVisit(r)
    \/ \E ok \in BOOLEAN : AfterDownload(ok)
    \/ \E reply \in ModelReplies : AfterModel(reply)
    \/ LeaveVisit

SpecRules == Init /\ [][NextRules]_vars

(* ------------------------------- properties ----------------------------- *)
Answered == resp.status = 200
HighFinding(findings) == \E i \in 1..Len(findings) : findings[i].severity = "high"
IsArray(a) == DOMAIN a = 1..Len(a)
\* the request passed the validation of the handler
Accepted == pc # "idle" /\ req.platform # <<>> /\ req.fields # Absent
HasRulebook(platform) == toLowerCase(platform) \in DOMAIN RuleFiles
\* the receipt of the request can be written, or is not asked for
ReceiptWritable == ~(ShouldSave(req) /\ WriteFails(req.platform))
CountOf(findings, url, label) ==
    Cardinality({ i \in 1..Len(findings) : findings[i].url = url /\ findings[i].label = label })
\* the level the image findings alone stand for
ImageLevel(findings) ==
    IF HighFinding(findings) THEN "red" ELSE IF findings # <<>> THEN "yellow" ELSE "green"
\* the number of risk token classes a URL carries
TokenClasses(url) == Len(UrlTokenFindings(toLowerCase(url)))

\* C1: in every verdict the level follows the severities: a high image
\* finding makes it red, no issue makes it green, and it is green only
\* without issues.
C1_LevelFollowsSeverity ==
    Answered =>
        /\ HighFinding(resp.body.imageFindings) => resp.body.level = "red"
        /\ resp.body.issues = <<>> => resp.body.level = "green"
        /\ resp.body.level = "green" => resp.body.issues = <<>>

\* C2: every 200 response has a level among green, yellow, red and carries
\* issues, fixes and imageFindings as arrays.
C2_VerdictShape ==
    Answered =>
        /\ resp.body.level \in Levels
        /\ IsArray(resp.body.issues)
        /\ IsArray(resp.body.fixes)
        /\ IsArray(resp.body.imageFindings)
C2_Witness ==
    /\ Answered /\ req.strictMode
    /\ resp.body.imageFindings # <<>> /\ resp.body.fixes # <<>>
    /\ resp.body.model.name = ModelName

\* C3: after steps 1-2 no step raises the level: step 3 moves it only to a
\* re-checked level of rank <= the current one, step 4 only to one of rank <
\* the current one, so the final level never ranks above the level after the
\* image scan.
C3_LaterStepsNeverRaise ==
    /\ afterScan.level # "" =>
          \/ afterFix.level = afterScan.level
          \/ /\ second.ran /\ afterFix.level = second.level
             /\ rank(second.level) <= rank(afterScan.level)
    /\ Answered =>
          /\ \/ resp.body.level = afterFix.level
             \/ /\ recheck.ran /\ resp.body.level = recheck.level
                /\ rank(recheck.level) < rank(afterFix.level)
          /\ rank(resp.body.level) <= rank(afterScan.level)
C3_Witness ==
    /\ Answered /\ req.strictMode /\ recheck.ran
    /\ rank(recheck.level) > rank(afterFix.level)
    /\ resp.body.level = afterFix.level

\* C4 (as claimed): the engine's run on the fields with its own fix of the
\* primary text field never gives a higher level than its run on the
\* original fields.
C4_FixNeverRaisesEngineLevel ==
    second.ran => rank(second.level) <= rank(LevelOf(first.issues, first.high))
\* C4 (amended): that run can give a higher level; strict mode takes its
\* level and issues exactly when the level does not rank above the one of
\* steps 1-2, so the level after step 3 never ranks above it.
C4_FixAdoptedOnlyIfNotWorse ==
    afterScan.level # "" =>
        /\ rank(afterFix.level) <= rank(afterScan.level)
        /\ IF second.ran /\ req.strictMode /\ rank(second.level) <= rank(afterScan.level)
           THEN afterFix.level = second.level /\ afterFix.issues = second.issues
           ELSE afterFix.level = afterScan.level /\ afterFix.issues = afterScan.issues
C4_Witness ==
    /\ Answered /\ req.strictMode /\ second.ran
    /\ rank(second.level) > rank(LevelOf(first.issues, first.high))
    /\ afterFix.level = afterScan.level

\* C5: without a rulebook for the platform runChecks does not throw and
\* returns the single issue "No rulebook found for <platform>" with high
\* set, and the verdict of the request is red.
C5_MissingRulebookIsRed ==
    (Accepted /\ ~HasRulebook(req.platform)) =>
        /\ ~first.threw
        /\ first.issues = << NoRulebookIssue(toLowerCase(req.platform)) >>
        /\ first.high
        /\ pc = "done" => (resp.status = 200 <=> ReceiptWritable)
        /\ Answered => resp.body.level = "red"
C5_Witness ==
    /\ Answered /\ ~HasRulebook(req.platform) /\ req.strictMode
    /\ resp.body.imageFindings # <<>>

\* C6: an exception of the image scan or of the model call does not end the
\* request: the failed step leaves its default (no image finding; a model
\* of name and error), the level and the issues are those of the steps
\* that did not fail, and the response is a 200 verdict of them whenever
\* the receipt can be written.
C6_ScanAndModelFailuresAbsorbed ==
    /\ (Accepted /\ scanThrew) =>
          /\ imageFindings = <<>>
          /\ afterScan.issues = first.issues
          /\ afterScan.level = LevelOf(first.issues, first.high)
    /\ (pc = "done" /\ recheck.error) =>
          /\ model = ModelError
          /\ level = afterFix.level /\ issues = afterFix.issues
    /\ (pc = "done" /\ (scanThrew \/ recheck.error) /\ ReceiptWritable) =>
          /\ Answered
          /\ resp.body = [level |-> level, issues |-> issues, fixes |-> fixes,
                          model |-> model, imageFindings |-> imageFindings]
C6_Witness ==
    Answered /\ scanThrew /\ recheck.error /\ resp.body.level = "yellow"

\* C7: a request with a platform and a fields object is never answered
\* with a 5xx status, whatever the shapes of the field values.
C7_NoServerErrorOnFieldShapes ==
    (pc = "done" /\ ReceiptWritable) => resp.status < 500

\* C8 (as claimed): with scanImages on, strictMode off and text that triggers
\* no category and no limit, the level of the verdict is the one the image
\* findings stand for: red with a high finding, yellow with findings none of
\* which is high, green without findings.
C8_ImagesDecideWithoutCategoryOrLimit ==
    ( /\ Answered /\ req.scanImages /\ ~req.strictMode
      /\ \A i \in 1..Len(first.issues) : first.issues[i].t \notin {"category", "limit"} )
    => resp.body.level = ImageLevel(resp.body.imageFindings)
\* C8 (amended): the same of a request whose text checks return no issue at
\* all: the platform has a rulebook and neither a category, a limit nor
\* the link rule of the platform reports.
C8_ImagesDecideOnCleanText ==
    (Answered /\ req.scanImages /\ ~req.strictMode /\ first.issues = <<>>)
    => resp.body.level = ImageLevel(resp.body.imageFindings)
C8_Witness ==
    /\ Answered /\ req.scanImages /\ ~req.strictMode /\ first.issues = <<>>
    /\ HighFinding(resp.body.imageFindings) /\ resp.body.level = "red"

\* C9: a request whose fields hold one image URL with one risk token class
\* gets exactly one entry of imageFindings, whether the download succeeds
\* or fails.
C9_OneFindingForOneToken ==
    ( /\ Answered /\ Len(fetchLog) = 1
      /\ TokenClasses(fetchLog[1].url) = 1 )
    => Len(resp.body.imageFindings) = 1

\* C10: a failed download does not end the scan: it adds exactly one medium
\* "Image fetch failed (non-blocking)" finding when the URL has an image
\* extension and none otherwise, every extracted URL is visited, and the
\* level is red only with a high text issue or a high finding, which a
\* fetch failure never is.
C10_FetchFailureIsOneMediumNote ==
    /\ \A i \in 1..Len(fetchLog) :
          fetchLog[i].outcome = "fail" =>
             /\ CountOf(found, fetchLog[i].url, FetchFailed.label)
                  = IF HasImgExt(fetchLog[i].url) THEN 1 ELSE 0
             /\ \A j \in 1..Len(found) :
                   (found[j].url = fetchLog[i].url /\ found[j].label = FetchFailed.label)
                   => found[j].severity = "medium"
    /\ (pc = "scan") => (urls # <<>> /\ ~scanThrew)
    /\ (fetchLog # <<>> /\ pc # "scan") =>
          /\ [i \in 1..Len(fetchLog) |-> fetchLog[i].url] = extractImageUrls(req.fields).urls
          /\ imageFindings = found
          /\ afterScan.level = "red" =>
                \/ first.high
                \/ \E j \in 1..Len(found) :
                      found[j].severity = "high" /\ found[j].label # FetchFailed.label
C10_Witness ==
    /\ Answered /\ Len(fetchLog) = 2
    /\ fetchLog[1].outcome = "fail" /\ HasImgExt(fetchLog[1].url)
    /\ fetchLog[2].outcome # "fail"
    /\ CountOf(resp.body.imageFindings, fetchLog[1].url, FetchFailed.label) = 1


\* C11: once scanImagesFromFields has returned, none of the temporary files
\* that downloadImage wrote during the scan is on disk.
C11_NoTempFileAfterScan ==
    (pc \in {"model", "done"}) =>
        \A i \in 1..Len(downloaded) :
            downloaded[i].from = "http" => downloaded[i].path \notin tmpFiles
C11_Witness ==
    /\ Answered /\ Len(fetchLog) = 2
    /\ \E i \in 1..Len(downloaded) : downloaded[i].from = "http"
    /\ tmpFiles = {}

InFlight(r) == dl[r].st \in {"fetching", "held"}
\* C12: two downloads in flight at the same time never have the same
\* temporary path, and the file a request has written and not yet cleaned
\* up is on disk as that request wrote it.
C12_TempPathsNeverShared ==
    /\ \A a, b \in Requesters :
          (a # b /\ InFlight(a) /\ InFlight(b)) => dl[a].path # dl[b].path
    /\ \A r \in Requesters :
          dl[r].st = "held" => [path |-> dl[r].path, writer |-> r] \in disk

\* token i of toks is within edit distance 1 of some term of list
WithinOne(toks, i, list) == \E k \in 1..Len(list) : editDistance(toks[i], list[k]) <= 1
\* the indexes of the tokens of the call's text that are near a term of list
NearTokens(list) ==
    LET Of(toks) == { i \in 1..Len(toks) : WithinOne(toks, i, list) }
    IN  Of(tokenize(call.arg.text))
\* C13: verbNearNoun is true exactly when tokens i and j of tokenize(text)
\* exist with token i within edit distance 1 of a verb, token j within edit
\* distance 1 of a noun and |i - j| <= window.
C13_VerbNearNounIffPairInWindow ==
    call.op = "verbNearNoun" =>
        (call.ret <=> \E i \in NearTokens(call.arg.verbs) : \E j \in NearTokens(call.arg.nouns) :
                          i - j <= call.arg.windowSize /\ j - i <= call.arg.windowSize)
\* a matched noun two tokens before a matched verb, outside a window of 1
C13_Witness ==
    /\ call.op = "verbNearNoun"
    /\ call.arg.windowSize = 1
    /\ 1 \in NearTokens(call.arg.nouns)
    /\ NearTokens(call.arg.verbs) = {3}
    /\ call.ret = FALSE

Max2(a, b) == IF a >= b THEN a ELSE b
\* the strings one edit operation away from s: a deletion, an insertion or a
\* substitution of a letter of alphabet, or a transposition of two neighbours
OneEdit(s, alphabet) ==
    { SubSeq(s, 1, i - 1) \o SubSeq(s, i + 1, Len(s)) : i \in 1..Len(s) }
    \cup { SubSeq(s, 1, i) \o <<c>> \o SubSeq(s, i + 1, Len(s)) :
             i \in 0..Len(s), c \in alphabet }
    \cup { [s EXCEPT ![i] = c] : i \in 1..Len(s), c \in alphabet }
    \cup { [s EXCEPT ![i] = s[i + 1], ![i + 1] = s[i]] : i \in 1..(Len(s) - 1) }
RECURSIVE EditsUntil(_, _, _, _, _, _)
\* the number of rounds of edit operations after which b is reached from the
\* strings of frontier; seen holds the strings reached in fewer rounds
EditsUntil(frontier, seen, b, alphabet, maxLen, n) ==
    IF b \in frontier THEN n
    ELSE LET Go(nxt) == EditsUntil(nxt \ seen, seen \cup nxt, b, alphabet, maxLen, n + 1)
         IN  Go({ t \in UNION { OneEdit(s, alphabet) : s \in frontier } : Len(t) <= maxLen })
\* the Damerau-Levenshtein distance: the length of a shortest sequence of edit
\* operations that turns a into b
DamerauLevenshtein(a, b) ==
    EditsUntil({a}, {a}, b, Range(a) \cup Range(b), Max2(Len(a), Len(b)) + 1, 0)

RECURSIVE Alignment(_, _, _, _)
\* the optimal string alignment distance of the first i letters of a and the
\* first j letters of b: Damerau-Levenshtein in which no substring is edited twice
Alignment(a, b, i, j) ==
    IF i = 0 THEN j
    ELSE IF j = 0 THEN i
    ELSE LET del == Alignment(a, b, i - 1, j) + 1
             ins == Alignment(a, b, i, j - 1) + 1
             sub == Alignment(a, b, i - 1, j - 1) + (IF a[i] = b[j] THEN 0 ELSE 1)
             base == Min2(Min2(del, ins), sub)
         IN  IF i > 1 /\ j > 1 /\ a[i] = b[j - 1] /\ a[i - 1] = b[j]
             THEN Min2(base, Alignment(a, b, i - 2, j - 2) + 1)
             ELSE base
OptimalAlignment(a, b) == Alignment(a, b, Len(a), Len(b))

\* editDistance(a, a) = 0, editDistance(a, b) = editDistance(b, a),
\* editDistance("cat", "act") = 1, for the arguments of the call
EditDistanceParticulars ==
    /\ editDistance(call.arg.a, call.arg.a) = 0
    /\ editDistance(call.arg.b, call.arg.a) = call.ret
    /\ (toLowerCase(call.arg.a) = <<"c","a","t">> /\ toLowerCase(call.arg.b) = <<"a","c","t">>) => call.ret = 1
C15_ReapplyingStyleChangesNothing ==
    call.op = "applyStyle" => applyStyle(call.ret, call.arg.style) = call.ret

\* C16: rewriteMedical returns a non-empty string for every text, every
\* shared medical fragment and every rulebook.
C16_RewriteMedicalNeverEmpty ==
    call.op = "rewriteMedical" => call.ret # <<>>

\* fields.title and limits.title_max of a call of checkWithRulebook
TitleOf(c) == Field(c.fields, K_title)
TitleMaxOf(c) == c.rb.limits.title_max
\* the title has a length and it is above the limit; a limit of 0 is no limit
TitleTooLong(c) ==
    /\ TitleMaxOf(c) > 0
    /\ \/ TitleOf(c).k = "str" /\ Len(TitleOf(c).s) > TitleMaxOf(c)
       \/ TitleOf(c).k = "arr" /\ Len(TitleOf(c).items) > TitleMaxOf(c)
\* v is the first n characters (items) of the title, and has exactly n of them
IsTitlePrefix(v, c, n) ==
    /\ v.k = TitleOf(c).k
    /\ Len(v.s) <= Len(TitleOf(c).s) /\ Len(v.items) <= Len(TitleOf(c).items)
    /\ v.s = [i \in 1..Len(v.s) |-> TitleOf(c).s[i]]
    /\ v.items = [i \in 1..Len(v.items) |-> TitleOf(c).items[i]]
    /\ (IF v.k = "str" THEN Len(v.s) ELSE Len(v.items)) = n
\* C17: a title longer than limits.title_max gets the issue that names the
\* limit and a fix for field title whose suggestion is the title's prefix of
\* exactly title_max characters; a title that is not longer gets neither.
C17_TitleLimitIssueAndTruncation ==
    (call.op = "checkWithRulebook" /\ ~call.ret.threw) =>
        LET TitleIssue(x) == x.t = "limit" /\ x.label = "Title"
            titleIssues == SelectSeq(call.ret.issues, TitleIssue)
            Truncation(f) == /\ f.field = K_title
                             /\ \E n \in 0..(Len(TitleOf(call.arg).s) + Len(TitleOf(call.arg).items) - 1) :
                                   IsTitlePrefix(f.suggestion, call.arg, n)
            truncations == SelectSeq(call.ret.fixes, Truncation)
        IN  IF TitleTooLong(call.arg)
            THEN /\ titleIssues = << LimitIssue("Title", TitleMaxOf(call.arg)) >>
                 /\ Len(truncations) = 1
                 /\ IsTitlePrefix(truncations[1].suggestion, call.arg, TitleMaxOf(call.arg))
            ELSE titleIssues = <<>> /\ truncations = <<>>
\* a title one character above the limit that also carries a medical claim
C17_Witness ==
    /\ call.op = "checkWithRulebook"
    /\ TitleOf(call.arg).k = "str"
    /\ TitleMaxOf(call.arg) = MaxTitleMax
    /\ Len(TitleOf(call.arg).s) > MaxTitleMax
    /\ Len(call.ret.fixes) = 2
    /\ call.ret.fixes[1].suggestion = VStr(SubSeq(TitleOf(call.arg).s, 1, MaxTitleMax))

\* how many of the issues are x
Occurrences(issueList, x) == Cardinality({ i \in 1..Len(issueList) : issueList[i] = x })
\* C18: the label of each category of the rulebook is at most once in the
\* issues checkWithRulebook returns, whatever patterns match and whether or
\* not the category's url_scheme_http_https check fires.
C18_CategoryLabelAtMostOnce ==
    (call.op = "checkWithRulebook" /\ ~call.ret.threw) =>
        \A k \in 1..Len(call.arg.rb.categories) :
            call.arg.rb.categories[k].label # "" =>
                Occurrences(call.ret.issues, CategoryIssue(call.arg.rb.categories[k].label)) <= 1

\* the merged category list of the calls of runChecks, and its orderings
MergedCategories == RbOrder.categories \o SharedGlobalCategories
Orderings ==
    { f \in [1..Len(MergedCategories) -> 1..Len(MergedCategories)] :
        \A i, j \in 1..Len(MergedCategories) : f[i] = f[j] => i = j }
\* checkWithRulebook of the call's fields with the merged list in order f
Reordered(f) ==
    checkWithRulebook(toLowerCase(call.arg.platform), call.arg.fields,
                      [RbOrder EXCEPT !.categories =
                          [i \in 1..Len(MergedCategories) |-> MergedCategories[f[i]]] \o <<>>])
HasOrderRulebook == call.op = "runChecks" /\ toLowerCase(call.arg.platform) \in DOMAIN OrderRules
\* the platform's categories are evaluated before the shared global ones
PlatformFirst ==
    /\ call.ret = Reordered([i \in 1..Len(MergedCategories) |-> i])
    /\ \A i \in 1..Len(call.ret.issues) :
          call.ret.issues[i] = CategoryIssue(SharedGlobalCategories[1].label)
              => i = Len(call.ret.issues)
\* r has the outcome of the call: both throw, or both give the same level
SameLevel(r) ==
    /\ r.threw = call.ret.threw
    /\ ~r.threw => LevelOf(r.issues, r.high) = LevelOf(call.ret.issues, call.ret.high)
\* r has the issues of the call up to their order
SameIssuesReordered(r) ==
    \A x \in Range(r.issues) \cup Range(call.ret.issues) :
        Occurrences(r.issues, x) = Occurrences(call.ret.issues, x)
C20_NonStrictKeepsScanVerdict ==
    (Answered /\ ~req.strictMode) =>
        /\ resp.body.level = afterScan.level
        /\ resp.body.issues = afterScan.issues
        /\ \/ resp.body.fixes = afterScan.fixes
           \/ /\ recheck.ran
              /\ resp.body.fixes = Append(afterScan.fixes,
                                          Fix(primaryTextField(req.fields),
                                              VStr(recheck.rewrite.s), "model"))
\* the re-check of the fix and the re-check of the model's rewrite both give
\* another level than steps 1-2, and neither changes the answer
C20_Witness ==
    /\ Answered /\ ~req.strictMode
    /\ second.ran /\ second.level # afterScan.level
    /\ recheck.ran /\ recheck.level # afterScan.level
    /\ Len(resp.body.fixes) = Len(afterScan.fixes) + 1
    /\ resp.body.level = afterScan.level

\* the lines of text
LinesOf(text) ==
    LET breaks == { i \in 1..Len(text) : text[i] = "\n" }
        starts == {1} \cup { i + 1 : i \in breaks }
        End(s) == IF \E b \in breaks : b >= s
                  THEN (CHOOSE b \in breaks : b >= s /\ \A c \in breaks : c >= s => b <= c) - 1
                  ELSE Len(text)
    IN  { Mid(text, s, End(s)) : s \in starts }
\* the line is "Label: " and one of green, yellow, red
IsLabelLine(line) ==
    /\ StartsWith(toLowerCase(line), <<"l","a","b","e","l",":">> (* label: *))
    /\ \E k \in 1..Len(ModelLabels) : Trim(toLowerCase(Mid(line, 7, Len(line)))) = ModelLabels[k]
\* the line is "Rewrite: " and a text
IsRewriteLine(line) ==
    /\ StartsWith(toLowerCase(line), <<"r","e","w","r","i","t","e",":">> (* rewrite: *))
    /\ Trim(Mid(line, 9, Len(line))) # <<>>
TwoLineFormat(text) ==
    /\ \E line \in LinesOf(text) : IsLabelLine(line)
    /\ \E line \in LinesOf(text) : IsRewriteLine(line)
\* C21: a response without the line "Label: <green|yellow|red>" or without
\* the line "Rewrite: <text>" is parsed to label "unknown" and rewrite null.
C21_DeviationIsUnknownAndNull ==
    (call.op = "parseModelOutput" /\ ~TwoLineFormat(call.arg)) =>
        call.ret.label = <<"u","n","k","n","o","w","n">> (* unknown *) /\ ~call.ret.rewrite.has

\* C22: every call of extractImageUrls returns, also on an object or an array
\* that contains itself.
C22_WalkReturns ==
    (traversal.st = "running") ~> (traversal.st = "returned")

\* an entry of issues is made of the label of the finding and its URL in brackets
IssueOfFinding(hit, list) ==
    \E j \in 1..Len(list) : list[j] = ImageIssue(hit.label, hit.url)
\* C23: in every returned verdict each entry of imageFindings has its entry in
\* issues, in strict and in non-strict mode, also after a re-check replaced the
\* issues.
C23_EveryFindingIsAnIssue ==
    Answered =>
        \A i \in 1..Len(resp.body.imageFindings) :
            IssueOfFinding(resp.body.imageFindings[i], resp.body.issues)

\* the heuristic server answered a request with clean text and one image URL
HeuristicAnswered == call.op = "heuristicCheck" /\ call.arg.textIssues = <<>>
RedTokenIn(path) == SomeToken(IMAGE_RED_TOKENS, toLowerCase(path))
ManualReview(hits) ==
    /\ Len(hits) = 1
    /\ hits[1].severity = "medium"
    /\ hits[1].label \in { "Image present (manual review)", "QR code / manual review" }
\* C24: in the heuristic server an image URL on localhost yields no finding and
\* level green unless it contains a red token; a remote image URL yields a
\* medium manual-review finding and level yellow unless it contains a red
\* token, and then the level is red.
C24_LocalGreenRemoteYellow ==
    HeuristicAnswered =>
        /\ (call.arg.host \in LoopbackHosts /\ ~RedTokenIn(call.arg.path)) =>
              /\ call.ret.imageFindings = <<>>
              /\ call.ret.level = "green"
        /\ (call.arg.host \in RemoteHosts /\ ~RedTokenIn(call.arg.path)) =>
              /\ ManualReview(call.ret.imageFindings)
              /\ call.ret.level = "yellow"
        /\ (call.arg.host \in RemoteHosts /\ RedTokenIn(call.arg.path)) =>
              call.ret.level = "red"

\* C25: saveReceipt never replaces a receipt written by another request: after
\* N requests that save a receipt, N receipt files exist, also when two
\* requests for one platform finish in the same millisecond.
C25_OneReceiptPerRequest ==
    Cardinality(receiptLog.files) = receiptLog.saved

\* a pattern with a group that is opened and never closed: no regular expression
OpensGroup(p) == \E i \in 1..Len(p) : p[i] = "("
HasInvalidPattern(rb) ==
    \E i \in 1..Len(rb.categories) :
        \E j \in 1..Len(rb.categories[i].patterns) : OpensGroup(rb.categories[i].patterns[j])
\* the rulebook without its invalid patterns
WithoutInvalid(rb) ==
    LET Valid(p) == ~OpensGroup(p)
    IN  [rb EXCEPT !.categories =
            [ i \in 1..Len(rb.categories) |->
                [rb.categories[i] EXCEPT !.patterns = SelectSeq(@, Valid)] ] \o <<>>]
PatternCall == call.op = "checkWithRulebook" /\ HasInvalidPattern(call.arg.rb)
\* C26: a pattern that is no valid regular expression is skipped:
\* checkWithRulebook does not throw and gives what it gives for the rulebook
\* without that pattern, so the other patterns of the category and the later
\* categories are evaluated and the invalid pattern adds no issue, no fix and
\* no severity.
C26_InvalidPatternIsSkipped ==
    PatternCall =>
        /\ ~call.ret.threw
        /\ call.ret = checkWithRulebook(call.arg.platform, call.arg.fields,
                                        WithoutInvalid(call.arg.rb))
\* an invalid pattern stands in front of one that matches, in a high category,
\* the text holds the invalid pattern letter by letter, and the later category matches too
C26_Witness ==
    /\ PatternCall
    /\ call.arg.rb.categories[1].patterns = << <<"(","g","u","a","r","a","n","t","e","e">> (* (guarantee *), <<"m","i","r","a","c","l","e">> (* miracle *) >>
    /\ call.arg.rb.categories[1].severity = "high"
    /\ call.arg.fields = VObj(<< KV(K_description, VStr(<<"A"," ","m","i","r","a","c","l","e"," ","m","u","g"," ","(","g","u","a","r","a","n","t","e","e","d",")">> (* A miracle mug (guaranteed) *))) >>)
    /\ call.ret.high
    /\ Len(call.ret.issues) = 2

\* key is, ignoring case, one of the names of KEY_HINTS
IsHintKey(key) == \E h \in KEY_HINTS : toLowerCase(h) = toLowerCase(key)
\* C27: an http(s) URL without image extension is collected if and only if the
\* key that contains it is, ignoring case, a name of KEY_HINTS; the items of an
\* array have the key of the array.
C27_CollectedIffHintKey ==
    (call.op = "extractImageUrls" /\ call.arg.shape \in {"str", "arr"}) =>
        /\ ~call.ret.threw
        /\ (call.ret.urls = << PlainUrl >>) <=> IsHintKey(call.arg.key)
        /\ call.ret.urls = <<>> <=> ~IsHintKey(call.arg.key)

\* [a-z0-9] of the lower-cased string
LowerAlnum(c) == c \in Range(LowerAZ) \cup Digits
\* token occurs in s at i with no [a-z0-9] in front of it and none behind it
FreeOccurrence(s, token, i) ==
    /\ SubSeq(s, i, i + Len(token) - 1) = token
    /\ i = 1 \/ ~LowerAlnum(s[i - 1])
    /\ i + Len(token) - 1 = Len(s) \/ ~LowerAlnum(s[i + Len(token)])
\* C29: hasToken(token) is true if and only if the lower-cased URL/path string
\* holds an occurrence of the token whose neighbours are absent or not in
\* [a-z0-9]; "adult" in "adulthood" is no such occurrence.
C29_TokenIffFreeOccurrence ==
    call.op = "hasToken" =>
        (call.ret <=> \E i \in 1..(Len(call.arg.pathish) - Len(call.arg.token) + 1) :
                          FreeOccurrence(call.arg.pathish, call.arg.token, i))
\* the first occurrence lies in an alphanumeric run, a later one is free
C29_Witness ==
    /\ call.op = "hasToken"
    /\ call.arg.token = <<"a">>
    /\ call.arg.pathish = <<"q","a","-","a"," ">> (* qa-a  *)
    /\ call.ret
\* "adult" within "adulthood" gives nothing
C29_WitnessEmbedded ==
    /\ call.op = "hasToken"
    /\ call.arg.token = <<"a","d","u","l","t">> (* adult *)
    /\ call.arg.pathish = <<"h","t","t","p",":","/","/","h","/","a","d","u","l","t","h","o","o","d",".","p","n","g"," ">> (* http://h/adulthood.png  *)
    /\ ~call.ret

\* C28: every http download has its own timeout and a download that never
\* answers becomes a failure of that one URL, so every request is answered,
\* also when the image host and the model endpoint never answer.
C28_EveryRequestIsAnswered ==
    (pending.pc \in {"download", "model"}) ~> (pending.pc = "responded")

\* C30: within one request every engine run and the rulebook version of the
\* receipt use the same rulebook content, also when PUT /api/rules/:platform
\* is processed while the request waits for a download or for the model.
C30_OneRulebookPerRequest ==
    \A i, j \in 1..Len(visit.reads) :
        (visit.reads[i].by # "prompt" /\ visit.reads[j].by # "prompt")
            => visit.reads[i].rb = visit.reads[j].rb
====
